---- MODULE Spec2Model ----
(***************************************************************************)
(* Model of the warehouse-network redistribution planner                   *)
(* (backend/ia/transfer_suggestions/src/transfer_service.py).              *)
(*                                                                         *)
(* Quantities are whole kilograms.  Confidence scores are integers in      *)
(* thousandths (1000 stands for 1.0); divisions round down.  Geography is  *)
(* one-dimensional: a location is a coordinate in metres on a line, used   *)
(* both for the clustering distance and for the projected distance.        *)
(* A data frame is a record [columns, rows]: columns names the column set  *)
(* ("none" for pd.DataFrame([]), which has no columns), rows is the        *)
(* sequence of its rows.                                                   *)
(***************************************************************************)
EXTENDS Integers, Sequences, FiniteSets, TLC

----------------------------------------------------------------------------
(* Bounds of the model *)

MaxRecords == 3
MaxBuyers == 4
MaxSales == 2
MaxCandidates == 3
MaxTransfers == 2

WarehouseIds == {1, 2, 3}
StockedWarehouseIds == {1, 2}
ProductIds == {1, 2}
QtySet == {50, 100, 200, 300, 500}
ForecastOutcomes == {<<0, 1000>>, <<200, 550>>, <<200, 1000>>, <<700, 550>>}
ThresholdSet == {0, 600, 900, 1000}
CandidateConfSet == {100, 600, 800, 1000}

ConfUnit == 10 * 100

----------------------------------------------------------------------------
(* Program constants (config.py) *)

MIN_DATA_POINTS_FOR_PROPHET == 10
DEFAULT_FORECAST_DAYS == 30
DEFAULT_DBSCAN_EPS_METERS == 50000
DEFAULT_DBSCAN_MIN_SAMPLES == 3
FORCE_MINIMUM_TRANSFERS == TRUE
WAREHOUSE_IMBALANCE_THRESHOLD == 20
MINIMUM_TRANSFER_SUGGESTIONS == 1
CONFIDENCE_THRESHOLD == 600

----------------------------------------------------------------------------
(* Sequences and frames *)

Range(s) == {s[i] : i \in DOMAIN s}

Min(a, b) == IF a <= b THEN a ELSE b

Max(a, b) == IF a >= b THEN a ELSE b

RECURSIVE SumQty(_)
SumQty(S) ==
    IF S = {} THEN 0
    ELSE LET r == CHOOSE x \in S : TRUE IN r.quantitykg + SumQty(S \ {r})

RECURSIVE SumTransferQty(_)
SumTransferQty(rows) ==
    IF rows = <<>> THEN 0
    ELSE Head(rows).transfer_qty + SumTransferQty(Tail(rows))

\* lexicographic order on pairs
PairLess(a, b) == a[1] < b[1] \/ (a[1] = b[1] /\ a[2] < b[2])

\* the pairs of S as a sequence in ascending order (group keys of a groupby / outer merge)
RECURSIVE SortedPairs(_)
SortedPairs(S) ==
    IF S = {} THEN <<>>
    ELSE LET m == CHOOSE x \in S : \A y \in S \ {x} : PairLess(x, y)
         IN <<m>> \o SortedPairs(S \ {m})

RECURSIVE SortedInts(_)
SortedInts(S) ==
    IF S = {} THEN <<>>
    ELSE LET m == CHOOSE x \in S : \A y \in S : x <= y
         IN <<m>> \o SortedInts(S \ {m})

EmptyFrame == [columns |-> "none", rows |-> <<>>]

\* pd.DataFrame(list_of_dicts): no columns when the list is empty
DataFrame(cols, rows) ==
    IF rows = <<>> THEN EmptyFrame ELSE [columns |-> cols, rows |-> rows]

\* pd.concat([a, b], ignore_index=True)
concat(a, b) ==
    [columns |-> IF a.columns = "none" THEN b.columns ELSE a.columns,
     rows |-> a.rows \o b.rows]

----------------------------------------------------------------------------
(* Inventory frame: rows [recordid, productid, warehouseid, quantitykg,       *)
(* registrationdate], in the order of the query                             *)
(* (ORDER BY productid, warehouseid, registrationdate).                    *)

InventoryLess(a, b) ==
    \/ a.productid < b.productid
    \/ (a.productid = b.productid /\ a.warehouseid < b.warehouseid)
    \/ (a.productid = b.productid /\ a.warehouseid = b.warehouseid
        /\ a.registrationdate < b.registrationdate)

RECURSIVE InventoryQueryOrder(_)
InventoryQueryOrder(S) ==
    IF S = {} THEN <<>>
    ELSE LET m == CHOOSE x \in S : \A y \in S \ {x} : InventoryLess(x, y)
         IN <<m>> \o InventoryQueryOrder(S \ {m})

\* insertion after every row that is not newer: a stable ascending sort
RECURSIVE InsertByDate(_, _)
InsertByDate(sorted, r) ==
    IF sorted = <<>> THEN <<r>>
    ELSE IF Head(sorted).registrationdate <= r.registrationdate
         THEN <<Head(sorted)>> \o InsertByDate(Tail(sorted), r)
         ELSE <<r>> \o sorted

RECURSIVE sort_values_registrationdate(_)
sort_values_registrationdate(rows) ==
    IF rows = <<>> THEN <<>>
    ELSE InsertByDate(sort_values_registrationdate(SubSeq(rows, 1, Len(rows) - 1)),
                      rows[Len(rows)])

\* df_inventory[(productid == p) & (warehouseid == w)].sort_values("registrationdate")
RecordsOf(inv, p, w) ==
    sort_values_registrationdate(
        SelectSeq(inv, LAMBDA r : r.productid = p /\ r.warehouseid = w))

\* groupby(["warehouseid", "productid"])["quantitykg"].sum()
StockKeys(inv) == {<<r.warehouseid, r.productid>> : r \in Range(inv)}

TotalStock(inv, w, p) ==
    SumQty({r \in Range(inv) : r.warehouseid = w /\ r.productid = p})

----------------------------------------------------------------------------
(* Forecast-based matching: calculate_inventory_delta.                      *)
(* Forecast rows: [productid, zone_id, forecasteddemandkg,                  *)
(* forecast_confidence].  zone_warehouse_map is a function from zone ids to *)
(* warehouse ids; a zone it lacks maps to NaN and its rows drop out of the  *)
(* groupby.                                                                 *)

RECURSIVE SumField(_, _)
SumField(S, f) ==
    IF S = {} THEN 0
    ELSE LET r == CHOOSE x \in S : TRUE IN r[f] + SumField(S \ {r}, f)

ForecastRowsAt(fc_rows, zmap, w, p) ==
    {r \in Range(fc_rows) :
        r.zone_id \in DOMAIN zmap /\ zmap[r.zone_id] = w /\ r.productid = p}

\* df_forecast.groupby(["warehouseid", "productid"]).agg(sum, mean)
DemandKeys(fc_rows, zmap) ==
    {<<zmap[r.zone_id], r.productid>> :
        r \in {x \in Range(fc_rows) : x.zone_id \in DOMAIN zmap}}

\* a delta with the sign turned: demand minus stock
DeltaRow_demand_minus_stock(fc_rows, inv, zmap, key) ==
    LET w == key[1]
        p == key[2]
        rows == ForecastRowsAt(fc_rows, zmap, w, p)
        demand == SumField(rows, "forecasteddemandkg")
        conf == IF rows = {} THEN 0
                ELSE SumField(rows, "forecast_confidence") \div Cardinality(rows)
        stock == TotalStock(inv, w, p)
    IN [warehouseid |-> w, productid |-> p,
        forecasteddemandkg |-> demand, forecast_confidence |-> conf,
        totalquantitykg |-> stock, deltakg |-> demand - stock]

\* one row of df_delta: outer merge, fillna(0), deltakg
DeltaRow(fc_rows, inv, zmap, key) ==
    LET w == key[1]
        p == key[2]
        rows == ForecastRowsAt(fc_rows, zmap, w, p)
        demand == SumField(rows, "forecasteddemandkg")
        conf == IF rows = {} THEN 0
                ELSE SumField(rows, "forecast_confidence") \div Cardinality(rows)
        stock == TotalStock(inv, w, p)
    IN [warehouseid |-> w, productid |-> p,
        forecasteddemandkg |-> demand, forecast_confidence |-> conf,
        totalquantitykg |-> stock, deltakg |-> stock - demand]

df_delta(fc_rows, inv, zmap) ==
    LET keys == SortedPairs(DemandKeys(fc_rows, zmap) \cup StockKeys(inv))
    IN [i \in DOMAIN keys |-> DeltaRow(fc_rows, inv, zmap, keys[i])]

\* stable insertion for sort_values("deltakg", ascending=False)
RECURSIVE InsertByDeltaDesc(_, _)
InsertByDeltaDesc(sorted, r) ==
    IF sorted = <<>> THEN <<r>>
    ELSE IF Head(sorted).deltakg >= r.deltakg
         THEN <<Head(sorted)>> \o InsertByDeltaDesc(Tail(sorted), r)
         ELSE <<r>> \o sorted

RECURSIVE sort_values_deltakg_desc(_)
sort_values_deltakg_desc(rows) ==
    IF rows = <<>> THEN <<>>
    ELSE InsertByDeltaDesc(sort_values_deltakg_desc(SubSeq(rows, 1, Len(rows) - 1)),
                           rows[Len(rows)])

\* a mis-weighted score: the magnitude weight 0.3 in place of 0.2
transfer_confidence_misweighted(deficit_confidence, surplus_confidence, needed_qty, available_surplus, record_qty) ==
    LET demand_magnitude_score == Min((needed_qty * ConfUnit) \div 100, ConfUnit)
        surplus_magnitude_score == Min((available_surplus * ConfUnit) \div 100, ConfUnit)
        quantity_match_score == Min((record_qty * ConfUnit) \div needed_qty, ConfUnit)
    IN Max(100, (5 * (deficit_confidence + surplus_confidence)
                 + 6 * demand_magnitude_score + 4 * surplus_magnitude_score
                 + 2 * quantity_match_score) \div 20)

\* 0.5*avg_forecast_confidence + 0.2*demand + 0.2*surplus + 0.1*match, at least 0.1
transfer_confidence(deficit_confidence, surplus_confidence, needed_qty, available_surplus, record_qty) ==
    LET demand_magnitude_score == Min((needed_qty * ConfUnit) \div 100, ConfUnit)
        surplus_magnitude_score == Min((available_surplus * ConfUnit) \div 100, ConfUnit)
        quantity_match_score == Min((record_qty * ConfUnit) \div needed_qty, ConfUnit)
    IN Max(100, (5 * (deficit_confidence + surplus_confidence)
                 + 4 * demand_magnitude_score + 4 * surplus_magnitude_score
                 + 2 * quantity_match_score) \div 20)

\* a suggestion that carries half of the record
forecast_suggestion_split(record, product_id, surplus_warehouse, deficit_warehouse, confidence) ==
    [recordid |-> record.recordid, productid |-> product_id,
     from_warehouseid |-> surplus_warehouse, to_warehouseid |-> deficit_warehouse,
     transfer_qty |-> record.quantitykg \div 2,
     registration_date |-> record.registrationdate,
     confidence_score |-> confidence]

\* the suggestion appended for an accepted record
forecast_suggestion(record, product_id, surplus_warehouse, deficit_warehouse, confidence) ==
    [recordid |-> record.recordid, productid |-> product_id,
     from_warehouseid |-> surplus_warehouse, to_warehouseid |-> deficit_warehouse,
     transfer_qty |-> record.quantitykg,
     registration_date |-> record.registrationdate,
     confidence_score |-> confidence]

\* the loop over surplus_records of one surplus warehouse
RECURSIVE TakeSurplusRecords(_, _, _, _, _, _)
TakeSurplusRecords(records, deficit_row, surplus_row, remaining_need, available_surplus, suggestions) ==
    IF records = <<>> \/ remaining_need <= 0
    THEN [suggestions |-> suggestions, remaining_need |-> remaining_need]
    ELSE LET record == Head(records)
             record_qty == record.quantitykg
             needed_qty == -deficit_row.deltakg
         IN IF record_qty <= remaining_need /\ record_qty <= available_surplus
            THEN TakeSurplusRecords(Tail(records), deficit_row, surplus_row,
                    remaining_need - record_qty, available_surplus - record_qty,
                    Append(suggestions,
                        forecast_suggestion(record, deficit_row.productid,
                            surplus_row.warehouseid, deficit_row.warehouseid,
                            transfer_confidence(deficit_row.forecast_confidence,
                                surplus_row.forecast_confidence, needed_qty,
                                available_surplus, record_qty))))
            ELSE TakeSurplusRecords(Tail(records), deficit_row, surplus_row,
                    remaining_need, available_surplus, suggestions)

\* a loop that starts every surplus warehouse with the whole need
RECURSIVE TakeSurplusWarehouses_need_reset(_, _, _, _, _)
TakeSurplusWarehouses_need_reset(product_surplus, inv, deficit_row, remaining_need, suggestions) ==
    IF product_surplus = <<>> \/ remaining_need <= 0 THEN suggestions
    ELSE LET surplus_row == Head(product_surplus)
             taken == TakeSurplusRecords(
                          RecordsOf(inv, deficit_row.productid, surplus_row.warehouseid),
                          deficit_row, surplus_row, remaining_need,
                          surplus_row.deltakg, suggestions)
         IN TakeSurplusWarehouses_need_reset(Tail(product_surplus), inv, deficit_row,
                                             remaining_need, taken.suggestions)

\* the loop over the surplus warehouses of the deficit's product
RECURSIVE TakeSurplusWarehouses(_, _, _, _, _)
TakeSurplusWarehouses(product_surplus, inv, deficit_row, remaining_need, suggestions) ==
    IF product_surplus = <<>> \/ remaining_need <= 0 THEN suggestions
    ELSE LET surplus_row == Head(product_surplus)
             taken == TakeSurplusRecords(
                          RecordsOf(inv, deficit_row.productid, surplus_row.warehouseid),
                          deficit_row, surplus_row, remaining_need,
                          surplus_row.deltakg, suggestions)
         IN TakeSurplusWarehouses(Tail(product_surplus), inv, deficit_row,
                                  taken.remaining_need, taken.suggestions)

\* the loop over deficit_warehouses
RECURSIVE MatchDeficits(_, _, _, _)
MatchDeficits(deficit_rows, surplus_warehouses, inv, suggestions) ==
    IF deficit_rows = <<>> THEN suggestions
    ELSE LET deficit_row == Head(deficit_rows)
             product_surplus == sort_values_deltakg_desc(
                 SelectSeq(surplus_warehouses,
                           LAMBDA s : s.productid = deficit_row.productid))
         IN MatchDeficits(Tail(deficit_rows), surplus_warehouses, inv,
                TakeSurplusWarehouses(product_surplus, inv, deficit_row,
                                      -deficit_row.deltakg, suggestions))

calculate_inventory_delta(fc_rows, inv, zmap) ==
    LET delta == df_delta(fc_rows, inv, zmap)
        surplus_warehouses == SelectSeq(delta, LAMBDA r : r.deltakg > 0)
        deficit_warehouses == SelectSeq(delta, LAMBDA r : r.deltakg < 0)
    IN DataFrame("transfers",
                 MatchDeficits(deficit_warehouses, surplus_warehouses, inv, <<>>))

----------------------------------------------------------------------------
(* Fallback generators.  The network average of a product is total / n over *)
(* the n warehouses holding it; the comparisons below are the code's        *)
(* comparisons multiplied through by n (and by 100 for the threshold), so   *)
(* excess and needed are carried as n times their value.                    *)

\* the suggestion of the warehouse-balance generator, fixed confidence 0.8
balance_suggestion(record, product_id, surplus_warehouse, deficit_warehouse) ==
    [recordid |-> record.recordid, productid |-> product_id,
     from_warehouseid |-> surplus_warehouse, to_warehouseid |-> deficit_warehouse,
     transfer_qty |-> record.quantitykg,
     registration_date |-> record.registrationdate,
     confidence_score |-> 800]

\* the suggestion of the forced-minimum generator, fixed confidence 0.6
minimum_suggestion(record, source_warehouse, dest_warehouse) ==
    [recordid |-> record.recordid, productid |-> record.productid,
     from_warehouseid |-> source_warehouse, to_warehouseid |-> dest_warehouse,
     transfer_qty |-> record.quantitykg,
     registration_date |-> record.registrationdate,
     confidence_score |-> 600]

\* warehouse_stock rows of one product, by ascending warehouse id
ProductWarehouses(inv, p) ==
    LET ws == SortedInts({r.warehouseid : r \in {x \in Range(inv) : x.productid = p}})
    IN [i \in DOMAIN ws |->
           [warehouseid |-> ws[i], total_stock |-> TotalStock(inv, ws[i], p)]]

\* the loop over surplus_records for one deficit warehouse
RECURSIVE BalanceRecords(_, _, _, _, _, _, _, _)
BalanceRecords(records, n, product_id, surplus_warehouse, deficit_warehouse, excess_qty, needed_qty, suggestions) ==
    IF records = <<>> \/ excess_qty <= 0 \/ needed_qty <= 0
    THEN [suggestions |-> suggestions, excess_qty |-> excess_qty]
    ELSE LET record == Head(records)
             record_qty == record.quantitykg
         IN IF n * record_qty <= Min(excess_qty, needed_qty)
            THEN BalanceRecords(Tail(records), n, product_id, surplus_warehouse,
                    deficit_warehouse, excess_qty - n * record_qty,
                    needed_qty - n * record_qty,
                    Append(suggestions,
                           balance_suggestion(record, product_id, surplus_warehouse,
                                              deficit_warehouse)))
            ELSE BalanceRecords(Tail(records), n, product_id, surplus_warehouse,
                    deficit_warehouse, excess_qty, needed_qty, suggestions)

\* the loop over deficit_warehouses for one surplus warehouse
RECURSIVE BalanceDeficits(_, _, _, _, _, _, _, _)
BalanceDeficits(deficit_rows, surplus_records, n, total, product_id, surplus_warehouse, excess_qty, suggestions) ==
    IF deficit_rows = <<>> \/ excess_qty <= 0 THEN suggestions
    ELSE LET deficit_row == Head(deficit_rows)
             taken == BalanceRecords(surplus_records, n, product_id, surplus_warehouse,
                          deficit_row.warehouseid, excess_qty,
                          total - n * deficit_row.total_stock, suggestions)
         IN BalanceDeficits(Tail(deficit_rows), surplus_records, n, total, product_id,
                            surplus_warehouse, taken.excess_qty, taken.suggestions)

\* the loop over surplus_warehouses of one product
RECURSIVE BalanceSurplus(_, _, _, _, _, _, _)
BalanceSurplus(surplus_rows, deficit_rows, inv, n, total, product_id, suggestions) ==
    IF surplus_rows = <<>> THEN suggestions
    ELSE LET surplus_row == Head(surplus_rows)
         IN BalanceSurplus(Tail(surplus_rows), deficit_rows, inv, n, total, product_id,
                BalanceDeficits(deficit_rows,
                    RecordsOf(inv, product_id, surplus_row.warehouseid),
                    n, total, product_id, surplus_row.warehouseid,
                    n * surplus_row.total_stock - total, suggestions))

\* the loop over avg_stock_per_product
RECURSIVE BalanceProducts(_, _, _)
BalanceProducts(products, inv, suggestions) ==
    IF products = <<>> THEN suggestions
    ELSE LET product_id == Head(products)
             product_warehouses == ProductWarehouses(inv, product_id)
             n == Len(product_warehouses)
             total == SumQty({r \in Range(inv) : r.productid = product_id})
             surplus_warehouses == SelectSeq(product_warehouses,
                 LAMBDA r : 100 * n * r.total_stock
                            > (100 + WAREHOUSE_IMBALANCE_THRESHOLD) * total)
             deficit_warehouses == SelectSeq(product_warehouses,
                 LAMBDA r : 100 * n * r.total_stock
                            < (100 - WAREHOUSE_IMBALANCE_THRESHOLD) * total)
         IN IF surplus_warehouses = <<>> \/ deficit_warehouses = <<>>
            THEN BalanceProducts(Tail(products), inv, suggestions)
            ELSE BalanceProducts(Tail(products), inv,
                    BalanceSurplus(surplus_warehouses, deficit_warehouses, inv, n,
                                   total, product_id, suggestions))

\* the balance transfers proper (before the minimum-transfer top-up)
balance_transfers(inv) ==
    DataFrame("transfers",
        BalanceProducts(SortedInts({r.productid : r \in Range(inv)}), inv, <<>>))

\* groupby("warehouseid")["quantitykg"].sum().sort_values(ascending=False), the ids
RECURSIVE InsertByTotalDesc(_, _, _)
InsertByTotalDesc(sorted, w, inv) ==
    LET tot(x) == SumQty({r \in Range(inv) : r.warehouseid = x})
    IN IF sorted = <<>> THEN <<w>>
       ELSE IF tot(Head(sorted)) >= tot(w)
            THEN <<Head(sorted)>> \o InsertByTotalDesc(Tail(sorted), w, inv)
            ELSE <<w>> \o sorted

RECURSIVE WarehousesByTotalDesc(_, _)
WarehousesByTotalDesc(ws, inv) ==
    IF ws = <<>> THEN <<>>
    ELSE InsertByTotalDesc(WarehousesByTotalDesc(SubSeq(ws, 1, Len(ws) - 1), inv),
                           ws[Len(ws)], inv)

warehouse_totals(inv) ==
    WarehousesByTotalDesc(SortedInts({r.warehouseid : r \in Range(inv)}), inv)

\* the loop over the records of one source warehouse
RECURSIVE MinimumRecords(_, _, _, _, _)
MinimumRecords(records, source_warehouse, dest_warehouses, num_needed, suggestions) ==
    IF records = <<>> \/ Len(suggestions) >= num_needed THEN suggestions
    ELSE LET records_used == Len(suggestions)
             dest_warehouse == dest_warehouses[(records_used % Len(dest_warehouses)) + 1]
         IN MinimumRecords(Tail(records), source_warehouse, dest_warehouses, num_needed,
                Append(suggestions,
                       minimum_suggestion(Head(records), source_warehouse,
                                          dest_warehouse)))

\* the loop over source_warehouses
RECURSIVE MinimumSources(_, _, _, _, _)
MinimumSources(source_warehouses, dest_warehouses, inv, num_needed, suggestions) ==
    IF source_warehouses = <<>> \/ Len(suggestions) >= num_needed THEN suggestions
    ELSE LET source_warehouse == Head(source_warehouses)
             source_records == sort_values_registrationdate(
                 SelectSeq(inv, LAMBDA r : r.warehouseid = source_warehouse))
         IN MinimumSources(Tail(source_warehouses), dest_warehouses, inv, num_needed,
                MinimumRecords(source_records, source_warehouse, dest_warehouses,
                               num_needed, suggestions))

generate_minimum_transfers(inv, num_needed) ==
    LET totals == warehouse_totals(inv)
        half == Len(totals) \div 2
        source_warehouses == SubSeq(totals, 1, half)
        dest_warehouses == SubSeq(totals, Len(totals) - half + 1, Len(totals))
    IN IF Len(totals) < 2 THEN EmptyFrame
       ELSE DataFrame("transfers",
                MinimumSources(source_warehouses, dest_warehouses, inv, num_needed, <<>>))

\* bool(DataFrame): pandas raises ValueError for every frame, empty or not
truth_value_raises(frame) == TRUE

(* generate_warehouse_balance_transfers: the balance transfers, then the    *)
(* top-up from generate_minimum_transfers, whose result is tested with      *)
(* "if additional_transfers:".  The outcome is [raised, frame, additional]: *)
(* raised names the exception that leaves the function ("" for none),       *)
(* additional is what generate_minimum_transfers returned.                  *)
generate_warehouse_balance_transfers(inv) ==
    LET df_transfers == balance_transfers(inv)
    IN IF FORCE_MINIMUM_TRANSFERS
          /\ Len(df_transfers.rows) < MINIMUM_TRANSFER_SUGGESTIONS
          /\ inv # <<>>
       THEN LET additional_transfers ==
                    generate_minimum_transfers(inv,
                        MINIMUM_TRANSFER_SUGGESTIONS - Len(df_transfers.rows))
            IN IF truth_value_raises(additional_transfers)
               THEN [raised |-> "ValueError", frame |-> EmptyFrame,
                     additional |-> additional_transfers]
               ELSE [raised |-> "", frame |-> concat(df_transfers, additional_transfers),
                     additional |-> additional_transfers]
       ELSE [raised |-> "", frame |-> df_transfers, additional |-> EmptyFrame]

----------------------------------------------------------------------------
(* Confidence filter: apply_confidence_threshold *)

\* index of the first row with the largest confidence_score
ArgMaxConfidence(rows) ==
    CHOOSE i \in DOMAIN rows :
        /\ \A j \in DOMAIN rows : rows[j].confidence_score <= rows[i].confidence_score
        /\ \A j \in 1..(i - 1) : rows[j].confidence_score < rows[i].confidence_score

\* df.nlargest(n, "confidence_score"), keep="first"
RECURSIVE nlargest(_, _)
nlargest(n, rows) ==
    IF n = 0 \/ rows = <<>> THEN <<>>
    ELSE LET i == ArgMaxConfidence(rows)
         IN <<rows[i]>> \o
            nlargest(n - 1, SubSeq(rows, 1, i - 1) \o SubSeq(rows, i + 1, Len(rows)))

\* a filter that keeps the rows strictly above the threshold
apply_confidence_threshold_strict(df_transfers, confidence_threshold) ==
    LET high_confidence_transfers ==
            SelectSeq(df_transfers.rows,
                      LAMBDA t : t.confidence_score > confidence_threshold)
    IN IF df_transfers.rows = <<>> THEN df_transfers
       ELSE IF Len(high_confidence_transfers) >= MINIMUM_TRANSFER_SUGGESTIONS
            THEN [df_transfers EXCEPT !.rows = high_confidence_transfers]
            ELSE IF Len(df_transfers.rows) >= MINIMUM_TRANSFER_SUGGESTIONS
                 THEN [df_transfers EXCEPT
                          !.rows = nlargest(MINIMUM_TRANSFER_SUGGESTIONS, df_transfers.rows)]
                 ELSE df_transfers

apply_confidence_threshold(df_transfers, confidence_threshold) ==
    LET high_confidence_transfers ==
            SelectSeq(df_transfers.rows,
                      LAMBDA t : t.confidence_score >= confidence_threshold)
    IN IF df_transfers.rows = <<>> THEN df_transfers
       ELSE IF Len(high_confidence_transfers) >= MINIMUM_TRANSFER_SUGGESTIONS
            THEN [df_transfers EXCEPT !.rows = high_confidence_transfers]
            ELSE IF Len(df_transfers.rows) >= MINIMUM_TRANSFER_SUGGESTIONS
                 THEN [df_transfers EXCEPT
                          !.rows = nlargest(MINIMUM_TRANSFER_SUGGESTIONS, df_transfers.rows)]
                 ELSE df_transfers

----------------------------------------------------------------------------
(* Clustering: run_clustering.  User rows: [userid, location, zone_id];     *)
(* zone_id is NoZoneColumn until the clustering sets the column.            *)

NoZoneColumn == 0 - 2

Outlier == 0 - 1

Abs(x) == IF x < 0 THEN -x ELSE x

\* radius_neighbors: the samples within eps of sample i, itself included
Neighborhood(locations, i, eps) ==
    {j \in DOMAIN locations : Abs(locations[i] - locations[j]) <= eps}

IsCore(locations, i, eps, min_samples) ==
    Cardinality(Neighborhood(locations, i, eps)) >= min_samples

\* the samples one depth-first expansion labels: the seed, and every still
\* unlabelled neighbour of a core sample already in the cluster
RECURSIVE ExpandCluster(_, _, _, _, _)
ExpandCluster(locations, labels, eps, min_samples, cluster) ==
    LET grown == cluster \cup
            {v \in DOMAIN locations :
                /\ labels[v] = Outlier
                /\ \E c \in cluster :
                      /\ IsCore(locations, c, eps, min_samples)
                      /\ v \in Neighborhood(locations, c, eps)}
    IN IF grown = cluster THEN cluster
       ELSE ExpandCluster(locations, labels, eps, min_samples, grown)

\* sklearn's dbscan_inner: samples in index order, a new label per unlabelled core
RECURSIVE dbscan_inner(_, _, _, _, _, _)
dbscan_inner(locations, eps, min_samples, i, labels, label_num) ==
    IF i > Len(locations) THEN labels
    ELSE IF labels[i] # Outlier \/ ~IsCore(locations, i, eps, min_samples)
         THEN dbscan_inner(locations, eps, min_samples, i + 1, labels, label_num)
         ELSE LET cluster == ExpandCluster(locations, labels, eps, min_samples, {i})
              IN dbscan_inner(locations, eps, min_samples, i + 1,
                     [j \in DOMAIN labels |->
                         IF j \in cluster THEN label_num ELSE labels[j]],
                     label_num + 1)

DBSCAN(locations, eps, min_samples) ==
    dbscan_inner(locations, eps, min_samples, 1,
                 [j \in DOMAIN locations |-> Outlier], 0)

\* a clustering without the check for an empty frame
run_clustering_unchecked(gdf_users) ==
    LET labels == DBSCAN([i \in DOMAIN gdf_users |-> gdf_users[i].location],
                         DEFAULT_DBSCAN_EPS_METERS, DEFAULT_DBSCAN_MIN_SAMPLES)
    IN [none |-> FALSE,
        users |-> [i \in DOMAIN gdf_users |->
                      [gdf_users[i] EXCEPT !.zone_id = labels[i]]]]

\* None (no frame) when gdf_users is empty, else the users with their zone_id
run_clustering(gdf_users) ==
    IF gdf_users = <<>> THEN [none |-> TRUE, users |-> <<>>]
    ELSE LET labels == DBSCAN([i \in DOMAIN gdf_users |-> gdf_users[i].location],
                              DEFAULT_DBSCAN_EPS_METERS, DEFAULT_DBSCAN_MIN_SAMPLES)
         IN [none |-> FALSE,
             users |-> [i \in DOMAIN gdf_users |->
                           [gdf_users[i] EXCEPT !.zone_id = labels[i]]]]

----------------------------------------------------------------------------
(* Zone mapping: map_zones_to_warehouses.  Warehouse rows:                  *)
(* [warehouseid, location].  The centroid of a dissolved zone is the mean   *)
(* of its distinct points; distances are compared multiplied by their count.*)

RECURSIVE SumInts(_)
SumInts(S) ==
    IF S = {} THEN 0
    ELSE LET x == CHOOSE y \in S : TRUE IN x + SumInts(S \ {x})

\* the zones that get a centroid when every zone is kept, the outlier label too
CentroidZonesUnfiltered(gdf_users_with_zones) ==
    {u.zone_id : u \in Range(gdf_users_with_zones)}

\* gdf_users_proj[zone_id != -1].dissolve(by="zone_id"): the zones with a centroid
CentroidZones(gdf_users_with_zones) ==
    {u.zone_id : u \in {x \in Range(gdf_users_with_zones) : x.zone_id # Outlier}}

ZonePoints(gdf_users_with_zones, zone_id) ==
    {u.location : u \in {x \in Range(gdf_users_with_zones) : x.zone_id = zone_id}}

\* distances.idxmin(): the first warehouse row at the least distance
NearestWarehouse(gdf_warehouses, points) ==
    LET d(i) == Abs(Cardinality(points) * gdf_warehouses[i].location - SumInts(points))
        idx == CHOOSE i \in DOMAIN gdf_warehouses :
                  /\ \A j \in DOMAIN gdf_warehouses : d(i) <= d(j)
                  /\ \A j \in 1..(i - 1) : d(j) > d(i)
    IN gdf_warehouses[idx].warehouseid

\* [raised, map]: idxmin of an empty distance series raises ValueError
map_zones_to_warehouses(gdf_users_with_zones, gdf_warehouses) ==
    LET zones == CentroidZones(gdf_users_with_zones)
    IN IF zones # {} /\ gdf_warehouses = <<>>
       THEN [raised |-> "ValueError", map |-> <<>>]
       ELSE [raised |-> "",
             map |-> [z \in zones |->
                        NearestWarehouse(gdf_warehouses,
                                         ZonePoints(gdf_users_with_zones, z))]]

----------------------------------------------------------------------------
(* Forecasting: run_forecasting.  Sale rows: [productid, quantitykg,        *)
(* orderdate, buyerid]; orderdate is a day number.  The seasonal model is a *)
(* library: what it does is a parameter, for the series of each product an  *)
(* answer [fails, total_demand, uncertainty_score].                         *)

ZoneOf(gdf_users_with_zones, userid) ==
    (CHOOSE u \in Range(gdf_users_with_zones) : u.userid = userid).zone_id

\* pd.merge(df_sales, users[["userid", "zone_id"]], left_on="buyerid", right_on="userid")
merge_sales_with_zones(df_sales, gdf_users_with_zones) ==
    LET known == SelectSeq(df_sales,
            LAMBDA r : \E u \in Range(gdf_users_with_zones) : u.userid = r.buyerid)
    IN [i \in DOMAIN known |->
           [productid |-> known[i].productid, quantitykg |-> known[i].quantitykg,
            orderdate |-> known[i].orderdate, buyerid |-> known[i].buyerid,
            zone_id |-> ZoneOf(gdf_users_with_zones, known[i].buyerid)]]

RECURSIVE SumSaleQty(_, _)
SumSaleQty(rows, idx) ==
    IF idx = {} THEN 0
    ELSE LET i == CHOOSE j \in idx : TRUE
         IN rows[i].quantitykg + SumSaleQty(rows, idx \ {i})

\* group.groupby("ds").agg(y=sum): the daily totals y, by ascending day
DailySeries(df_sales_with_zones, product_id, zone_id) ==
    LET group == {i \in DOMAIN df_sales_with_zones :
                     /\ df_sales_with_zones[i].productid = product_id
                     /\ df_sales_with_zones[i].zone_id = zone_id}
        days == SortedInts({df_sales_with_zones[i].orderdate : i \in group})
    IN [k \in DOMAIN days |->
           SumSaleQty(df_sales_with_zones,
               {i \in group : df_sales_with_zones[i].orderdate = days[k]})]

RECURSIVE SumSeq(_)
SumSeq(ys) == IF ys = <<>> THEN 0 ELSE Head(ys) + SumSeq(Tail(ys))

\* the integer square root, by bisection on [lo, hi]
RECURSIVE IsqrtIn(_, _, _)
IsqrtIn(x, lo, hi) ==
    IF lo >= hi THEN lo
    ELSE LET mid == (lo + hi + 1) \div 2
         IN IF mid * mid <= x THEN IsqrtIn(x, mid, hi) ELSE IsqrtIn(x, lo, mid - 1)

\* the root of a 32-bit integer is below 46341
Isqrt(x) == IsqrtIn(x, 0, Min(x, 46340))

\* min(len(df_ts) / MIN_DATA_POINTS_FOR_PROPHET, 1.0)
data_quality_score(ys) ==
    Min((Len(ys) * ConfUnit) \div MIN_DATA_POINTS_FOR_PROPHET, ConfUnit)

\* max(0.3, 1 / (1 + cv)), cv = std / mean with the sample standard deviation:
\* 1 / (1 + cv) = sum / (sum + n * std), n * std = sqrt(sum((n*y - sum)^2) / (n - 1))
variance_penalty(ys) ==
    LET n == Len(ys)
        total == SumSeq(ys)
        squares == SumSeq([k \in DOMAIN ys |-> (n * ys[k] - total) * (n * ys[k] - total)])
        n_std == Isqrt(squares \div (n - 1))
    IN IF total + n_std = 0 THEN ConfUnit
       ELSE Max(300, (ConfUnit * total) \div (total + n_std))

\* a forecaster whose simple average is the demand of one day
forecast_group_daily_mean(product_id, zone_id, ys, forecast_days, prophet) ==
    LET dq == data_quality_score(ys)
        vp == variance_penalty(ys)
        avg_total == SumSeq(ys) \div Len(ys)
        total_demand ==
            IF Len(ys) < MIN_DATA_POINTS_FOR_PROPHET \/ prophet.fails
            THEN avg_total ELSE prophet.total_demand
        forecast_confidence ==
            IF Len(ys) < MIN_DATA_POINTS_FOR_PROPHET
            THEN 400 + (3 * dq + 3 * vp) \div 10
            ELSE IF prophet.fails
                 THEN 300 + (3 * dq + 4 * vp) \div 10
                 ELSE 300 + (4 * prophet.uncertainty_score + 2 * dq + vp) \div 10
    IN [productid |-> product_id, zone_id |-> zone_id,
        forecasteddemandkg |-> Max(0, total_demand),
        forecast_confidence |-> forecast_confidence]

\* a forecaster that appends total_demand as it is
forecast_group_unclamped(product_id, zone_id, ys, forecast_days, prophet) ==
    LET dq == data_quality_score(ys)
        vp == variance_penalty(ys)
        avg_total == (SumSeq(ys) * forecast_days) \div Len(ys)
        total_demand ==
            IF Len(ys) < MIN_DATA_POINTS_FOR_PROPHET \/ prophet.fails
            THEN avg_total ELSE prophet.total_demand
        forecast_confidence ==
            IF Len(ys) < MIN_DATA_POINTS_FOR_PROPHET
            THEN 400 + (3 * dq + 3 * vp) \div 10
            ELSE IF prophet.fails
                 THEN 300 + (3 * dq + 4 * vp) \div 10
                 ELSE 300 + (4 * prophet.uncertainty_score + 2 * dq + vp) \div 10
    IN [productid |-> product_id, zone_id |-> zone_id,
        forecasteddemandkg |-> total_demand,
        forecast_confidence |-> forecast_confidence]

\* the forecast of one (product, zone) group with daily totals ys, len(ys) >= 2
forecast_group(product_id, zone_id, ys, forecast_days, prophet) ==
    LET dq == data_quality_score(ys)
        vp == variance_penalty(ys)
        avg_total == (SumSeq(ys) * forecast_days) \div Len(ys)
        total_demand ==
            IF Len(ys) < MIN_DATA_POINTS_FOR_PROPHET \/ prophet.fails
            THEN avg_total ELSE prophet.total_demand
        forecast_confidence ==
            IF Len(ys) < MIN_DATA_POINTS_FOR_PROPHET
            THEN 400 + (3 * dq + 3 * vp) \div 10
            ELSE IF prophet.fails
                 THEN 300 + (3 * dq + 4 * vp) \div 10
                 ELSE 300 + (4 * prophet.uncertainty_score + 2 * dq + vp) \div 10
    IN [productid |-> product_id, zone_id |-> zone_id,
        forecasteddemandkg |-> Max(0, total_demand),
        forecast_confidence |-> forecast_confidence]

\* a forecaster that keeps the outlier groups
forecast_groups_with_outliers(df_sales_with_zones) ==
    SortedPairs({<<r.productid, r.zone_id>> : r \in Range(df_sales_with_zones)})

\* the groups that are forecast candidates: groupby(["productid", "zone_id"]) in
\* key order, the outlier zone skipped
forecast_groups(df_sales_with_zones) ==
    SortedPairs({<<r.productid, r.zone_id>> :
        r \in {x \in Range(df_sales_with_zones) : x.zone_id # Outlier}})

run_forecasting(df_sales_with_zones, forecast_days, prophet) ==
    LET groups == forecast_groups(df_sales_with_zones)
        enough == SelectSeq(groups,
            LAMBDA g : Len(DailySeries(df_sales_with_zones, g[1], g[2])) >= 2)
    IN DataFrame("forecast",
           [k \in DOMAIN enough |->
               forecast_group(enough[k][1], enough[k][2],
                   DailySeries(df_sales_with_zones, enough[k][1], enough[k][2]),
                   forecast_days, prophet[enough[k][1]])])

\* some group has the MIN_DATA_POINTS_FOR_PROPHET days that send it to the seasonal model
prophet_consulted(df_sales_with_zones) ==
    \E g \in Range(forecast_groups(df_sales_with_zones)) :
        Len(DailySeries(df_sales_with_zones, g[1], g[2])) >= MIN_DATA_POINTS_FOR_PROPHET

----------------------------------------------------------------------------
(* Routing: solve_redistribution_vrp and force_vrp_solution.  Truck rows:   *)
(* [truckid, loadcapacitykg].  The routing library is a parameter: solver = *)
(* [solved, visits, solution_of, overruns], whether some search attempt     *)
(* returned a solution, the vehicles (indices from 1) that have a visit in  *)
(* it, the first attempt, in the order they are made, that returns it, and  *)
(* whether the searches took longer than the time the run was given.  An    *)
(* assignment is                                                            *)
(* [key, vehicle, truck_id, capacity, total_load], key the prefix of its    *)
(* dictionary key.                                                          *)

Count(rows, Test(_)) == Len(SelectSeq(rows, Test))

\* Series.value_counts().index: the values by descending count, ties in order of
\* first appearance
RECURSIVE InsertByCountDesc(_, _, _)
InsertByCountDesc(sorted, v, values) ==
    IF sorted = <<>> THEN <<v>>
    ELSE IF Count(values, LAMBDA x : x = Head(sorted)) >= Count(values, LAMBDA x : x = v)
         THEN <<Head(sorted)>> \o InsertByCountDesc(Tail(sorted), v, values)
         ELSE <<v>> \o sorted

RECURSIVE FirstAppearance(_, _)
FirstAppearance(values, seen) ==
    IF values = <<>> THEN <<>>
    ELSE IF Head(values) \in seen THEN FirstAppearance(Tail(values), seen)
         ELSE <<Head(values)>> \o FirstAppearance(Tail(values), seen \cup {Head(values)})

RECURSIVE SortByCountDesc(_, _)
SortByCountDesc(distinct, values) ==
    IF distinct = <<>> THEN <<>>
    ELSE InsertByCountDesc(SortByCountDesc(SubSeq(distinct, 1, Len(distinct) - 1), values),
                           distinct[Len(distinct)], values)

value_counts_index(values) == SortByCountDesc(FirstAppearance(values, {}), values)

\* df_trucks.head(max_trucks_to_use)
head(rows, n) == SubSeq(rows, 1, Min(n, Len(rows)))

RECURSIVE SumCapacity(_)
SumCapacity(trucks) ==
    IF trucks = <<>> THEN 0
    ELSE Head(trucks).loadcapacitykg + SumCapacity(Tail(trucks))

MaxOf(S) == CHOOSE x \in S : \A y \in S : y <= x

\* int(x / y) for x of either sign: truncation toward zero
TruncDiv(x, y) == IF x >= 0 THEN x \div y ELSE -((-x) \div y)

\* a split into the whole number of truck loads that the demand holds
SplitDemand_rounded_down(demand, max_truck_capacity) ==
    IF Abs(demand) <= max_truck_capacity THEN <<demand>>
    ELSE LET num_splits == Abs(demand) \div max_truck_capacity
         IN [k \in 1..num_splits |-> TruncDiv(demand, num_splits)]

\* the split of one node demand into sub-visits of at most max_truck_capacity
SplitDemand(demand, max_truck_capacity) ==
    IF Abs(demand) <= max_truck_capacity THEN <<demand>>
    ELSE LET num_splits == (Abs(demand) + max_truck_capacity - 1) \div max_truck_capacity
         IN [k \in 1..num_splits |-> TruncDiv(demand, num_splits)]

RECURSIVE SplitDemands(_, _)
SplitDemands(demands, max_truck_capacity) ==
    IF demands = <<>> THEN <<>>
    ELSE SplitDemand(Head(demands), max_truck_capacity)
         \o SplitDemands(Tail(demands), max_truck_capacity)

\* the assignments of a solved model: total_load divides by the running count of
\* trucks found with visits
RECURSIVE VrpAssignments(_, _, _, _, _)
VrpAssignments(vehicle, available_trucks, visits, actual_redistribution, trucks_used) ==
    IF vehicle > Len(available_trucks) THEN <<>>
    ELSE IF vehicle \in visits
         THEN <<[key |-> "vrp_route", vehicle |-> vehicle - 1,
                 truck_id |-> available_trucks[vehicle].truckid,
                 capacity |-> available_trucks[vehicle].loadcapacitykg,
                 total_load |-> actual_redistribution \div (trucks_used + 1)]>>
              \o VrpAssignments(vehicle + 1, available_trucks, visits,
                                actual_redistribution, trucks_used + 1)
         ELSE VrpAssignments(vehicle + 1, available_trucks, visits,
                             actual_redistribution, trucks_used)

\* the coordinates of the sub-visits: every sub-visit of a node at the node's place
RECURSIVE SplitCoords(_, _, _)
SplitCoords(demands, coords, max_truck_capacity) ==
    IF demands = <<>> THEN <<>>
    ELSE [k \in DOMAIN SplitDemand(Head(demands), max_truck_capacity) |-> Head(coords)]
         \o SplitCoords(Tail(demands), Tail(coords), max_truck_capacity)

\* a scaling step that leaves the demands as they are
scale_demands_unscaled(demands, total_fleet_capacity) == demands

\* "Scale demands if needed": int(demands[i] * scale_factor) for the positive demands,
\* scale_factor = min(1.0, actual_redistribution / total_deficit).  For the quantities
\* of the bounded sets the float product truncates to the whole quotient below; where
\* the exact product is whole, the float product can fall a unit short of it.
scale_demands(demands, total_fleet_capacity) ==
    LET total_surplus == Abs(SumSeq(SelectSeq(demands, LAMBDA d : d < 0)))
        total_deficit == SumSeq(SelectSeq(demands, LAMBDA d : d > 0))
        actual_redistribution ==
            Min(Min(total_surplus, total_deficit), total_fleet_capacity)
    IN [i \in DOMAIN demands |->
           IF demands[i] > 0 /\ actual_redistribution < total_deficit
           THEN (demands[i] * actual_redistribution) \div total_deficit
           ELSE demands[i]]

\* the attempts on the model: the search of line 802, the fallback strategies, the
\* model without the capacity dimension
FIRST_SEARCH == "FIRST_UNBOUND_MIN_VALUE"

fallback_strategies ==
    <<"PATH_CHEAPEST_ARC", "SAVINGS", "PATH_MOST_CONSTRAINED_ARC", "EVALUATOR_STRATEGY",
      "ALL_UNPERFORMED">>

WITHOUT_CAPACITY == "without capacity constraints"

BASIC_ASSIGNMENTS == "basic truck assignments"

\* a loop over the strategies that goes on after a solution
RECURSIVE TryStrategies_without_break(_, _, _)
TryStrategies_without_break(strategies, solver, attempts) ==
    IF strategies = <<>> THEN attempts
    ELSE TryStrategies_without_break(Tail(strategies), solver,
                                     Append(attempts, Head(strategies)))

\* "for strategy in fallback_strategies: ... if solution: break"
RECURSIVE TryStrategies(_, _, _)
TryStrategies(strategies, solver, attempts) ==
    IF strategies = <<>> THEN attempts
    ELSE IF solver.solution_of = Head(strategies)
         THEN Append(attempts, Head(strategies))
         ELSE TryStrategies(Tail(strategies), solver, Append(attempts, Head(strategies)))

\* "search_parameters.time_limit.seconds" of an attempt; 0 is the value of a limit that
\* was never set, which is no limit
time_limit_seconds(attempt) ==
    IF attempt \in Range(fallback_strategies) THEN 5
    ELSE IF attempt = WITHOUT_CAPACITY THEN 3
    ELSE 0

\* the attempts made on a model, in the order they are made, the basic assignments
\* included when no attempt returned a solution
SearchAttempts(solver) ==
    IF solver.solution_of = FIRST_SEARCH THEN <<FIRST_SEARCH>>
    ELSE TryStrategies(fallback_strategies, solver, <<FIRST_SEARCH>>)
         \o (IF solver.solution_of \in Range(fallback_strategies)
             THEN <<>> ELSE <<WITHOUT_CAPACITY>>)
         \o (IF solver.solved THEN <<>> ELSE <<BASIC_ASSIGNMENTS>>)

\* the position of the warehouse in the involved warehouses, from 1; 0 if it is not there
IndexOfWarehouse(gdf_involved_warehouses, warehouse_id) ==
    IF \E i \in DOMAIN gdf_involved_warehouses :
           gdf_involved_warehouses[i].warehouseid = warehouse_id
    THEN CHOOSE i \in DOMAIN gdf_involved_warehouses :
             gdf_involved_warehouses[i].warehouseid = warehouse_id
    ELSE 0

\* "if max_demand > max_truck_capacity"
needs_split(demands, truck_capacities) ==
    /\ truck_capacities # <<>>
    /\ demands # <<>>
    /\ MaxOf({Abs(demands[i]) : i \in DOMAIN demands}) > MaxOf(Range(truck_capacities))

\* the model after the split of the demands that exceed the largest truck
split_model(product_id, net_demands, coords, scaled_demands, truck_capacities, warehouse_ids, depot_idx) ==
    [product_id |-> product_id,
     warehouse_ids |-> warehouse_ids,
     depot_idx |-> depot_idx,
     depot |-> IF needs_split(scaled_demands, truck_capacities) THEN 1 ELSE depot_idx,
     node_warehouses |-> IF needs_split(scaled_demands, truck_capacities)
                         THEN SplitCoords(scaled_demands, warehouse_ids,
                                          MaxOf(Range(truck_capacities)))
                         ELSE warehouse_ids,
     attempts |-> <<>>,
     solution_of |-> "",
     overran |-> FALSE,
     net_demands |-> net_demands,
     coords |-> coords,
     scaled_demands |-> scaled_demands,
     truck_capacities |-> truck_capacities,
     demands |-> IF needs_split(scaled_demands, truck_capacities)
                 THEN SplitDemands(scaled_demands, MaxOf(Range(truck_capacities)))
                 ELSE scaled_demands,
     new_coords |-> IF needs_split(scaled_demands, truck_capacities)
                    THEN SplitCoords(scaled_demands, coords,
                                     MaxOf(Range(truck_capacities)))
                    ELSE coords]

\* the net demand of every involved warehouse that has a location
net_demands_of(product_transfers, gdf_involved_warehouses) ==
    [i \in DOMAIN gdf_involved_warehouses |->
        SumTransferQty(SelectSeq(product_transfers,
            LAMBDA t : t.to_warehouseid = gdf_involved_warehouses[i].warehouseid))
        - SumTransferQty(SelectSeq(product_transfers,
            LAMBDA t : t.from_warehouseid = gdf_involved_warehouses[i].warehouseid))]

scaled_model(product_id, net_demands, coords, truck_capacities, warehouse_ids, depot_idx) ==
    split_model(product_id, net_demands, coords,
                scale_demands(net_demands, SumSeq(truck_capacities)), truck_capacities,
                warehouse_ids, depot_idx)

\* "depot_warehouse_id = from_warehouse_counts.index[0]"
depot_warehouse_id_of(product_transfers) ==
    value_counts_index([k \in DOMAIN product_transfers |->
                           product_transfers[k].from_warehouseid])[1]

capacities_of(available_trucks) ==
    [i \in DOMAIN available_trucks |-> available_trucks[i].loadcapacitykg]

involved_warehouses(product_transfers, gdf_warehouses) ==
    SelectSeq(gdf_warehouses,
        LAMBDA w : \E t \in Range(product_transfers) :
            w.warehouseid \in {t.from_warehouseid, t.to_warehouseid})

\* what solve_redistribution_vrp hands to the routing library for one product:
\* net_demands and coords per involved warehouse, scaled_demands after the scaling,
\* demands and new_coords after the split, one capacity per vehicle, depot_idx the
\* node chosen as depot and depot the depot node of the manager that is solved
\* (nodes from 1), node_warehouses the warehouse of every node
routing_model(product_id, df_transfers, gdf_warehouses, df_trucks, max_trucks_to_use) ==
    LET product_transfers == SelectSeq(df_transfers.rows,
                                       LAMBDA t : t.productid = product_id)
        gdf_involved_warehouses == involved_warehouses(product_transfers, gdf_warehouses)
    IN scaled_model(product_id,
                    net_demands_of(product_transfers, gdf_involved_warehouses),
                    [i \in DOMAIN gdf_involved_warehouses |->
                        gdf_involved_warehouses[i].location],
                    capacities_of(head(df_trucks, max_trucks_to_use)),
                    [i \in DOMAIN gdf_involved_warehouses |->
                        gdf_involved_warehouses[i].warehouseid],
                    IF product_transfers = <<>> THEN 0
                    ELSE IndexOfWarehouse(gdf_involved_warehouses,
                                          depot_warehouse_id_of(product_transfers)))

\* the outcome of the call for the model it has built
solved_model(product_transfers, gdf_involved_warehouses, available_trucks, model, solver) ==
    LET depot_warehouse_id ==
            value_counts_index([k \in DOMAIN product_transfers |->
                                   product_transfers[k].from_warehouseid])[1]
        num_trucks == Len(available_trucks)
        total_surplus == Abs(SumSeq(SelectSeq(model.net_demands, LAMBDA d : d < 0)))
        total_deficit == SumSeq(SelectSeq(model.net_demands, LAMBDA d : d > 0))
        actual_redistribution ==
            Min(Min(total_surplus, total_deficit), SumCapacity(available_trucks))
        total_load == SumSeq([i \in DOMAIN model.demands |-> Abs(model.demands[i])])
        trucks_to_use ==
            Min(num_trucks, Max(1, total_load \div MaxOf(Range(model.truck_capacities))))
    IN IF product_transfers = <<>>
       THEN [kind |-> "None", assignments |-> <<>>, model |-> <<>>]
       ELSE IF ~\E w \in Range(gdf_involved_warehouses) :
                   w.warehouseid = depot_warehouse_id
       THEN [kind |-> "raised", assignments |-> <<>>, model |-> <<>>]
       ELSE IF total_surplus = 0
       THEN [kind |-> "None", assignments |-> <<>>, model |-> <<>>]
       ELSE IF num_trucks = 0
       THEN [kind |-> "raised", assignments |-> <<>>, model |-> <<>>]
       ELSE IF total_deficit = 0
       THEN [kind |-> "tuple", assignments |-> <<>>, model |-> <<>>]
       ELSE [kind |-> "tuple",
             assignments |->
                 IF solver.solved
                 THEN VrpAssignments(1, available_trucks, solver.visits,
                                     actual_redistribution, 0)
                 ELSE [v \in 1..trucks_to_use |->
                         [key |-> "basic_route", vehicle |-> v - 1,
                          truck_id |-> available_trucks[v].truckid,
                          capacity |-> available_trucks[v].loadcapacitykg,
                          total_load |-> total_load \div trucks_to_use]],
             model |-> <<[model EXCEPT !.attempts = SearchAttempts(solver),
                                       !.solution_of = solver.solution_of,
                                      !.overran = solver.overruns]>>]

\* [kind, assignments, model]: kind is "None", "tuple" or "raised"; model holds the
\* routing model when the call went as far as solving it
solve_redistribution_vrp(product_id, df_transfers, gdf_warehouses, df_trucks, max_trucks_to_use, solver) ==
    solved_model(SelectSeq(df_transfers.rows, LAMBDA t : t.productid = product_id),
                 involved_warehouses(
                     SelectSeq(df_transfers.rows, LAMBDA t : t.productid = product_id),
                     gdf_warehouses),
                 head(df_trucks, max_trucks_to_use),
                 routing_model(product_id, df_transfers, gdf_warehouses, df_trucks,
                               max_trucks_to_use),
                 solver)

\* [kind, assignments, model]: kind is "dict" or "raised"
force_vrp_solution(product_id, df_transfers, gdf_warehouses, df_trucks, max_trucks_to_use, solver) ==
    LET result == solve_redistribution_vrp(product_id, df_transfers, gdf_warehouses,
                                           df_trucks, max_trucks_to_use, solver)
        product_transfers == SelectSeq(df_transfers.rows,
                                       LAMBDA t : t.productid = product_id)
        available_trucks == head(df_trucks, max_trucks_to_use)
        total_load == SumTransferQty(product_transfers)
        trucks_needed == Min(Len(available_trucks), Max(1, total_load \div 1000))
    IN IF result.kind = "raised"
       THEN [kind |-> "raised", assignments |-> <<>>, model |-> <<>>]
       ELSE IF result.kind = "tuple" /\ result.assignments # <<>>
       THEN [kind |-> "dict", assignments |-> result.assignments, model |-> result.model]
       ELSE IF product_transfers = <<>> \/ available_trucks = <<>>
       THEN [kind |-> "dict", assignments |-> <<>>, model |-> result.model]
       ELSE [kind |-> "dict",
             assignments |-> [i \in 1..trucks_needed |->
                 [key |-> "forced_route", vehicle |-> i - 1,
                  truck_id |-> available_trucks[i].truckid,
                  capacity |-> available_trucks[i].loadcapacitykg,
                  total_load |-> total_load \div trucks_needed]],
             model |-> result.model]

----------------------------------------------------------------------------
(* Response: prepare_response_data.  all_truck_assignments is a function    *)
(* from the products that have assignments to their assignment sequences.   *)

NoTruck == 0

\* the first assignment of the transfer's product whose key starts with "vrp_route_"
AssignedTruck(transfer, all_truck_assignments) ==
    IF transfer.productid \in DOMAIN all_truck_assignments
    THEN LET vrp == SelectSeq(all_truck_assignments[transfer.productid],
                              LAMBDA a : a.key = "vrp_route")
         IN IF vrp = <<>> THEN <<>> ELSE <<vrp[1]>>
    ELSE <<>>

transfer_record(k, transfer, all_truck_assignments) ==
    LET assigned_truck == AssignedTruck(transfer, all_truck_assignments)
    IN [transfer_id |-> k,
        product_id |-> transfer.productid,
        product_record_id |-> transfer.recordid,
        origin_warehouse_id |-> transfer.from_warehouseid,
        destination_warehouse_id |-> transfer.to_warehouseid,
        quantity_kg |-> transfer.transfer_qty,
        assigned_truck_id |->
            IF assigned_truck = <<>> THEN NoTruck ELSE assigned_truck[1].truck_id,
        truck_capacity_kg |->
            IF assigned_truck = <<>> THEN 0 ELSE assigned_truck[1].capacity,
        route_total_load_kg |->
            IF assigned_truck = <<>> THEN 0 ELSE assigned_truck[1].total_load,
        status |-> "Pending"]

RECURSIVE SumQuantityKg(_)
SumQuantityKg(rows) ==
    IF rows = <<>> THEN 0 ELSE Head(rows).quantity_kg + SumQuantityKg(Tail(rows))

\* groupby("product_id"): nunique counts the trucks that are not null
product_summary_of(transfer_records) ==
    LET products == SortedInts({r.product_id : r \in Range(transfer_records)})
    IN [k \in DOMAIN products |->
          LET rows == SelectSeq(transfer_records,
                                LAMBDA r : r.product_id = products[k])
          IN [product_id |-> products[k],
              total_quantity_kg |-> SumQuantityKg(rows),
              number_of_transfers |-> Len(rows),
              trucks_required |->
                  Cardinality({r.assigned_truck_id : r \in Range(rows)} \ {NoTruck})]]

RouteKeyLess(a, b) ==
    \/ PairLess(<<a[1], a[2]>>, <<b[1], b[2]>>)
    \/ (a[1] = b[1] /\ a[2] = b[2] /\ a[3] < b[3])

RECURSIVE SortedRouteKeys(_)
SortedRouteKeys(S) ==
    IF S = {} THEN <<>>
    ELSE LET m == CHOOSE x \in S : \A y \in S \ {x} : RouteKeyLess(x, y)
         IN <<m>> \o SortedRouteKeys(S \ {m})

\* groupby([origin, destination, assigned_truck_id]): a null key drops its rows
route_summary_of(transfer_records) ==
    LET keys == SortedRouteKeys(
            {<<r.origin_warehouse_id, r.destination_warehouse_id, r.assigned_truck_id>> :
                r \in {x \in Range(transfer_records) : x.assigned_truck_id # NoTruck}})
    IN [k \in DOMAIN keys |->
          LET rows == SelectSeq(transfer_records,
                  LAMBDA r : /\ r.origin_warehouse_id = keys[k][1]
                             /\ r.destination_warehouse_id = keys[k][2]
                             /\ r.assigned_truck_id = keys[k][3])
          IN [origin_warehouse_id |-> keys[k][1],
              destination_warehouse_id |-> keys[k][2],
              assigned_truck_id |-> keys[k][3],
              route_total_kg |-> SumQuantityKg(rows),
              number_of_records |-> Len(rows),
              number_of_products |-> Cardinality({r.product_id : r \in Range(rows)})]]

prepare_response_data(df_transfers, all_truck_assignments) ==
    LET transfer_records ==
            [k \in DOMAIN df_transfers.rows |->
                transfer_record(k, df_transfers.rows[k], all_truck_assignments)]
    IN [transfer_records |-> transfer_records,
        product_summary |-> product_summary_of(transfer_records),
        route_summary |-> route_summary_of(transfer_records)]

----------------------------------------------------------------------------
(* One planning run: generate_transfer_suggestions *)

VARIABLES
    pc,                         \* the next stage of the run, "done" after its return
    gdf_users, gdf_warehouses, df_sales, df_inventory, df_trucks,   \* the snapshot
    max_trucks_to_use, confidence_threshold,                        \* the configuration
    zone_warehouse_map, df_forecast, df_transfers,
    additional_transfers,       \* what generate_minimum_transfers last returned
    products_needing_transfers, \* the products the routing loop has yet to visit
    all_truck_assignments,
    result,                     \* the returned dictionary
    steps,                      \* the methods called so far, in order
    routing_models,             \* per product, the model last handed to the routing library
    db,                         \* the tables fetch_data reads
    prophet_model,              \* the seasonal model's outcome once it has been consulted
    parked                      \* the other invocations of the worker pool, not running now

\* what belongs to one invocation: its service object and its local variables
locals == <<pc, gdf_users, gdf_warehouses, df_sales, df_inventory, df_trucks,
            max_trucks_to_use, confidence_threshold, zone_warehouse_map, df_forecast,
            df_transfers, additional_transfers, products_needing_transfers,
            all_truck_assignments, result, steps, routing_models>>

vars == <<locals, db, prophet_model, parked>>

snapshot == <<gdf_users, gdf_warehouses, df_sales, df_inventory, df_trucks>>

config == <<max_trucks_to_use, confidence_threshold>>

NoResult ==
    [success |-> FALSE, message |-> "", error |-> "", keys |-> {},
     transfer_records |-> <<>>, product_summary |-> <<>>, route_summary |-> <<>>,
     results |-> [total_products |-> 0, total_transfers |-> 0, total_volume |-> 0]]

\* the early returns: success, message and error only
EarlyFailure(message, error) ==
    [NoResult EXCEPT !.message = message, !.error = error,
                     !.keys = {"success", "message", "error"}]

\* a handler that returned what the run had built when the exception came
ExceptionFailure_with_partial_output(error) ==
    [NoResult EXCEPT !.message = "Error during transfer suggestion generation",
                     !.error = error,
                     !.keys = {"success", "message", "error", "transfer_records",
                               "product_summary", "route_summary"},
                     !.transfer_records = df_transfers.rows]

\* the except clause: the failure with the three empty lists
ExceptionFailure(error) ==
    [NoResult EXCEPT !.message = "Error during transfer suggestion generation",
                     !.error = error,
                     !.keys = {"success", "message", "error", "transfer_records",
                               "product_summary", "route_summary"}]

\* an exception raised in a stage ends the run in the except clause
Raise(error) ==
    /\ result' = ExceptionFailure(error)
    /\ pc' = "done"

----------------------------------------------------------------------------
(* The inputs *)

\* the inventory frames of at most n rows; the row registered d-th has id 100 + d
InventoryFrames(n, warehouses, products, quantities) ==
    UNION {
        {InventoryQueryOrder(
            {[recordid |-> 100 + d, productid |-> f[d][2], warehouseid |-> f[d][1],
              quantitykg |-> f[d][3], registrationdate |-> d] : d \in 1..k}) :
         f \in [1..k -> warehouses \X products \X quantities]} : k \in 0..n}

\* the warehouses, 100 km apart; the first k of them have a location
WarehouseFrame(k) ==
    [i \in 1..k |-> [warehouseid |-> i, location |-> (i - 1) * 100000]]

\* k trucks of 1000 kg
TruckFrame(k) == [i \in 1..k |-> [truckid |-> 10 + i, loadcapacitykg |-> 1000]]

\* three 200 kg records in warehouse 1 and one in warehouse 2: the stock that the
\* warehouse-balance generator evens out with one transfer
UnbalancedInventory ==
    InventoryQueryOrder(
        {[recordid |-> 100 + d, productid |-> 1, warehouseid |-> IF d < 4 THEN 1 ELSE 2,
          quantitykg |-> 200, registrationdate |-> d] : d \in 1..4})

\* 300 kg of product 1 in warehouses 1 and 2 and 100 kg in warehouse 3 and in a
\* fourth warehouse, which has no location: two warehouses above the average of
\* 200 kg and two below it
TwoSurplusInventory ==
    InventoryQueryOrder(
        {[recordid |-> 100 + d, productid |-> 1,
          warehouseid |-> IF d < 5 THEN (d + 1) \div 2 ELSE d - 2,
          quantitykg |-> IF d \in {2, 4} THEN 200 ELSE 100,
          registrationdate |-> d] : d \in 1..6})

\* the inventories of a whole run: up to two 200 kg records of one product
RunInventoryFrames == InventoryFrames(2, {1, 2}, {1}, {200})

UserLocations == {0, 50000, 100000}

\* the buyer frames of at most n rows, west to east
UserFrames(n) ==
    UNION {
        {[i \in 1..k |-> [userid |-> i, location |-> f[i], zone_id |-> NoZoneColumn]] :
         f \in {g \in [1..k -> UserLocations] :
                   \A i \in 1..k, j \in 1..k : i < j => g[i] <= g[j]}} : k \in 0..n}

SaleQty == {10}

\* the sale frames of at most n rows for the buyers of users, on two days
SaleRows(users) ==
    {[productid |-> p, quantitykg |-> q, orderdate |-> d, buyerid |-> users[i].userid] :
        p \in {1}, q \in SaleQty, d \in {1, 2}, i \in DOMAIN users}

RECURSIVE SetToSeq(_)
SetToSeq(S) ==
    IF S = {} THEN <<>>
    ELSE LET m == CHOOSE x \in S :
                     \A y \in S \ {x} : PairLess(<<x.buyerid, x.orderdate>>,
                                                 <<y.buyerid, y.orderdate>>)
         IN <<m>> \o SetToSeq(S \ {m})

SaleFrames(users, n) ==
    {SetToSeq(S) : S \in {T \in SUBSET SaleRows(users) : Cardinality(T) <= n}}

\* what the seasonal model does with one series: it raises, or it answers with the
\* sum of yhat over the horizon and the uncertainty score of its interval
ProphetAnswers ==
    {[fails |-> TRUE, total_demand |-> 0, uncertainty_score |-> 200],
     [fails |-> FALSE, total_demand |-> 0 - 50, uncertainty_score |-> 200],
     [fails |-> FALSE, total_demand |-> 700, uncertainty_score |-> 1000]}

\* the seasonal model over the series of the products: the same answer for every
\* product, or a failure for product 1 and an answer for the others
ProphetOutcomes ==
    {[p \in ProductIds |-> answer] : answer \in ProphetAnswers}
    \cup {[p \in ProductIds |->
              IF p = 1 THEN [fails |-> TRUE, total_demand |-> 0, uncertainty_score |-> 200]
              ELSE [fails |-> FALSE, total_demand |-> 700, uncertainty_score |-> 1000]]}

\* what the routing library does with a model: no attempt returns a solution, or the
\* first search returns one with visits for some of the vehicles
SolverResults(num_trucks) ==
    {[solved |-> FALSE, visits |-> {}, solution_of |-> "", overruns |-> FALSE]}
    \cup {[solved |-> TRUE, visits |-> v, solution_of |-> FIRST_SEARCH,
           overruns |-> FALSE] :
              v \in (SUBSET (1..num_trucks)) \ {{}}}

\* the attempts after the first search that are followed when they return the
\* solution: a fallback strategy in the middle of the list, the last one and the
\* model without the capacity dimension
LaterAttempts ==
    {fallback_strategies[3], fallback_strategies[Len(fallback_strategies)],
     WITHOUT_CAPACITY}

\* the same, and a later attempt is the first to return a solution, with visits for
\* the first vehicle; and the searches that find nothing, one of them without a time
\* limit, go on for longer than any time the caller has set itself
SolverOutcomes(num_trucks) ==
    SolverResults(num_trucks)
    \cup {[solved |-> TRUE, visits |-> {1}, solution_of |-> attempt,
           overruns |-> FALSE] :
              attempt \in IF num_trucks = 0 THEN {} ELSE LaterAttempts}
    \cup {[solver EXCEPT !.overruns = TRUE] :
              solver \in {r \in SolverResults(0) :
                             \E attempt \in Range(SearchAttempts(r)) :
                                 time_limit_seconds(attempt) = 0
                                 /\ attempt # BASIC_ASSIGNMENTS}}

\* the stock of a database with the first k warehouses located
StockFrames(k) ==
    IF k = 0 THEN {<<>>}
    ELSE IF k = 1 THEN {UnbalancedInventory}
    ELSE RunInventoryFrames

\* the numbers of located warehouses: none registered, only warehouse 1 located,
\* or all located
LocatedWarehouses == {0, 1, Cardinality(WarehouseIds)}

\* the databases a run can find with the buyers users and the first k warehouses
\* located: the buyers' sales, the in-stock records and the available trucks
Databases(users, k) ==
    {[users |-> users, sales |-> sales, warehouses |-> WarehouseFrame(k),
      inventory |-> inventory, trucks |-> TruckFrame(t)] :
        sales \in SaleFrames(users, MaxSales),
        inventory \in StockFrames(k),
        t \in 0..1}

\* the database of a run that is followed from a later stage on
NoDatabase ==
    [users |-> <<>>, sales |-> <<>>, warehouses |-> <<>>, inventory |-> <<>>,
     trucks |-> <<>>]

\* a seasonal model that answers anew at every call
ProphetChoices_unseeded == ProphetOutcomes

\* the seasonal model as a function of its input: what it answered once for the
\* sales of the database it answers again
ProphetChoices == IF prophet_model = <<>> THEN ProphetOutcomes ELSE Range(prophet_model)

----------------------------------------------------------------------------
(* The stages *)

TypeOK ==
    pc \in {"fetch", "cluster", "map", "forecast", "forecasted", "match",
            "fallback", "filter", "select", "route", "force", "respond", "done"}

\* fetch_data and the check of its result
FetchData ==
    /\ pc = "fetch"
    /\ steps' = Append(steps, "fetch_data")
    /\ \/ /\ result' = EarlyFailure("Failed to fetch data from database",
                                    "Database connection error")
          /\ pc' = "done"
          /\ UNCHANGED snapshot
       \/ /\ gdf_users' = db.users
          /\ df_sales' = db.sales
          /\ gdf_warehouses' = db.warehouses
          /\ df_inventory' = db.inventory
          /\ df_trucks' = db.trucks
          /\ pc' = "cluster"
          /\ UNCHANGED result
    /\ UNCHANGED <<config, zone_warehouse_map, df_forecast, df_transfers,
                   additional_transfers, products_needing_transfers,
                   all_truck_assignments>>
    /\ UNCHANGED <<routing_models, db, prophet_model, parked>>

\* Step 1: run_clustering
Clustering ==
    /\ pc = "cluster"
    /\ steps' = Append(steps, "run_clustering")
    /\ LET gdf_users_with_zones == run_clustering(gdf_users)
       IN IF gdf_users_with_zones.none
          THEN /\ result' = EarlyFailure("No user data available for clustering",
                                         "Insufficient user data")
               /\ pc' = "done"
               /\ UNCHANGED gdf_users
          ELSE /\ gdf_users' = gdf_users_with_zones.users
               /\ pc' = "map"
               /\ UNCHANGED result
    /\ UNCHANGED <<gdf_warehouses, df_sales, df_inventory, df_trucks, config,
                   zone_warehouse_map, df_forecast, df_transfers, additional_transfers,
                   products_needing_transfers, all_truck_assignments>>
    /\ UNCHANGED <<routing_models, db, prophet_model, parked>>

MapZones ==
    /\ pc = "map"
    /\ steps' = Append(steps, "map_zones_to_warehouses")
    /\ LET mapped == map_zones_to_warehouses(gdf_users, gdf_warehouses)
       IN IF mapped.raised # ""
          THEN /\ Raise("attempt to get argmin of an empty sequence")
               /\ UNCHANGED zone_warehouse_map
          ELSE /\ zone_warehouse_map' = mapped.map
               /\ pc' = "forecast"
               /\ UNCHANGED result
    /\ UNCHANGED <<snapshot, config, df_forecast, df_transfers, additional_transfers,
                   products_needing_transfers, all_truck_assignments>>
    /\ UNCHANGED <<routing_models, db, prophet_model, parked>>

\* Step 2: the merge of sales and zones, and run_forecasting
Forecasting ==
    /\ pc = "forecast"
    /\ steps' = Append(steps, "run_forecasting")
    /\ LET df_sales_with_zones == merge_sales_with_zones(df_sales, gdf_users)
       IN \E prophet \in ProphetChoices :
             /\ df_forecast' = run_forecasting(df_sales_with_zones,
                                               DEFAULT_FORECAST_DAYS, prophet)
             /\ prophet_model' = IF prophet_consulted(df_sales_with_zones)
                                 THEN <<prophet>> ELSE prophet_model
    /\ pc' = "forecasted"
    /\ UNCHANGED <<snapshot, config, zone_warehouse_map, df_transfers,
                   additional_transfers, products_needing_transfers,
                   all_truck_assignments, result>>
    /\ UNCHANGED <<routing_models, db, parked>>

\* "if df_forecast.empty: df_forecast = generate_warehouse_balance_transfers(...)"
BalanceAsForecast ==
    /\ pc = "forecasted"
    /\ df_forecast.rows = <<>>
    /\ LET balance == generate_warehouse_balance_transfers(df_inventory)
       IN /\ steps' = steps \o <<"generate_warehouse_balance_transfers">>
                      \o (IF balance.additional = EmptyFrame /\ balance.raised = ""
                          THEN <<>> ELSE <<"generate_minimum_transfers">>)
          /\ additional_transfers' = balance.additional
          /\ IF balance.raised # ""
             THEN /\ Raise("The truth value of a DataFrame is ambiguous")
                  /\ UNCHANGED df_forecast
             ELSE /\ df_forecast' = balance.frame
                  /\ pc' = "match"
                  /\ UNCHANGED result
    /\ UNCHANGED <<snapshot, config, zone_warehouse_map, df_transfers,
                   products_needing_transfers, all_truck_assignments>>
    /\ UNCHANGED <<routing_models, db, prophet_model, parked>>

\* Step 3: calculate_inventory_delta; a frame without a zone_id column is a KeyError
CalculateInventoryDelta ==
    /\ \/ pc = "match"
       \/ pc = "forecasted" /\ df_forecast.rows # <<>>
    /\ steps' = Append(steps, "calculate_inventory_delta")
    /\ IF df_forecast.columns # "forecast"
       THEN /\ Raise("'zone_id'")
            /\ UNCHANGED df_transfers
       ELSE /\ df_transfers' = calculate_inventory_delta(df_forecast.rows, df_inventory,
                                                         zone_warehouse_map)
            /\ pc' = IF df_transfers'.rows = <<>> THEN "fallback" ELSE "filter"
            /\ UNCHANGED result
    /\ UNCHANGED <<snapshot, config, zone_warehouse_map, df_forecast,
                   additional_transfers, products_needing_transfers,
                   all_truck_assignments>>
    /\ UNCHANGED <<routing_models, db, prophet_model, parked>>

\* "if df_transfers.empty: df_transfers = generate_warehouse_balance_transfers(...)"
BalanceFallback ==
    /\ pc = "fallback"
    /\ LET balance == generate_warehouse_balance_transfers(df_inventory)
       IN /\ steps' = steps \o <<"generate_warehouse_balance_transfers">>
                      \o (IF balance.additional = EmptyFrame /\ balance.raised = ""
                          THEN <<>> ELSE <<"generate_minimum_transfers">>)
          /\ additional_transfers' = balance.additional
          /\ IF balance.raised # ""
             THEN /\ Raise("The truth value of a DataFrame is ambiguous")
                  /\ UNCHANGED df_transfers
             ELSE /\ df_transfers' = balance.frame
                  /\ pc' = "filter"
                  /\ UNCHANGED result
    /\ UNCHANGED <<snapshot, config, zone_warehouse_map, df_forecast,
                   products_needing_transfers, all_truck_assignments>>
    /\ UNCHANGED <<routing_models, db, prophet_model, parked>>

ApplyConfidenceThreshold ==
    /\ pc = "filter"
    /\ steps' = Append(steps, "apply_confidence_threshold")
    /\ df_transfers' = apply_confidence_threshold(df_transfers, confidence_threshold)
    /\ pc' = "select"
    /\ UNCHANGED <<snapshot, config, zone_warehouse_map, df_forecast,
                   additional_transfers, products_needing_transfers,
                   all_truck_assignments, result>>
    /\ UNCHANGED <<routing_models, db, prophet_model, parked>>

\* Step 4: df_transfers["productid"].value_counts(); KeyError on a frame without columns
SelectProducts ==
    /\ pc = "select"
    /\ IF df_transfers.columns = "none"
       THEN /\ Raise("'productid'")
            /\ UNCHANGED products_needing_transfers
       ELSE /\ products_needing_transfers' =
                   value_counts_index([k \in DOMAIN df_transfers.rows |->
                                          df_transfers.rows[k].productid])
            /\ pc' = "route"
            /\ UNCHANGED result
    /\ UNCHANGED <<snapshot, config, zone_warehouse_map, df_forecast, df_transfers,
                   additional_transfers, all_truck_assignments, steps>>
    /\ UNCHANGED <<routing_models, db, prophet_model, parked>>

AllProducts ==
    value_counts_index([k \in DOMAIN df_transfers.rows |-> df_transfers.rows[k].productid])

\* one iteration of the loop over products_needing_transfers
SolveProduct ==
    /\ pc = "route"
    /\ products_needing_transfers # <<>>
    /\ steps' = Append(steps, "solve_redistribution_vrp")
    /\ \E solver \in SolverOutcomes(Len(head(df_trucks, max_trucks_to_use))) :
          LET product_id == Head(products_needing_transfers)
              solved == solve_redistribution_vrp(product_id, df_transfers,
                            gdf_warehouses, df_trucks, max_trucks_to_use, solver)
          IN IF solved.kind = "raised"
             THEN /\ Raise("routing model")
                  /\ UNCHANGED <<products_needing_transfers, all_truck_assignments,
                                 routing_models>>
             ELSE /\ products_needing_transfers' = Tail(products_needing_transfers)
                  /\ all_truck_assignments' =
                        IF solved.kind = "tuple" /\ solved.assignments # <<>>
                        THEN (product_id :> solved.assignments) @@ all_truck_assignments
                        ELSE all_truck_assignments
                  /\ routing_models' =
                        IF solved.model # <<>>
                        THEN (product_id :> solved.model[1]) @@ routing_models
                        ELSE routing_models
                  /\ pc' = "route"
                  /\ UNCHANGED result
    /\ UNCHANGED <<snapshot, config, zone_warehouse_map, df_forecast, df_transfers,
                   additional_transfers>>
    /\ UNCHANGED <<db, prophet_model, parked>>

\* the end of the first loop: "if not products_with_vrp_solutions"
EndRouting ==
    /\ pc = "route"
    /\ products_needing_transfers = <<>>
    /\ IF DOMAIN all_truck_assignments = {}
       THEN /\ pc' = "force"
            /\ products_needing_transfers' = AllProducts
       ELSE /\ pc' = "respond"
            /\ UNCHANGED products_needing_transfers
    /\ UNCHANGED <<snapshot, config, zone_warehouse_map, df_forecast, df_transfers,
                   additional_transfers, all_truck_assignments, result, steps>>
    /\ UNCHANGED <<routing_models, db, prophet_model, parked>>

\* one iteration of the loop that forces an assignment for every product
ForceProduct ==
    /\ pc = "force"
    /\ products_needing_transfers # <<>>
    /\ steps' = Append(steps, "force_vrp_solution")
    /\ \E solver \in SolverOutcomes(Len(head(df_trucks, max_trucks_to_use))) :
          LET product_id == Head(products_needing_transfers)
              forced == force_vrp_solution(product_id, df_transfers, gdf_warehouses,
                            df_trucks, max_trucks_to_use, solver)
          IN IF forced.kind = "raised"
             THEN /\ Raise("routing model")
                  /\ UNCHANGED <<products_needing_transfers, all_truck_assignments,
                                 routing_models>>
             ELSE /\ products_needing_transfers' = Tail(products_needing_transfers)
                  /\ all_truck_assignments' =
                        IF forced.assignments # <<>>
                        THEN (product_id :> forced.assignments) @@ all_truck_assignments
                        ELSE all_truck_assignments
                  /\ routing_models' =
                        IF forced.model # <<>>
                        THEN (product_id :> forced.model[1]) @@ routing_models
                        ELSE routing_models
                  /\ pc' = "force"
                  /\ UNCHANGED result
    /\ UNCHANGED <<snapshot, config, zone_warehouse_map, df_forecast, df_transfers,
                   additional_transfers>>
    /\ UNCHANGED <<db, prophet_model, parked>>

EndForcing ==
    /\ pc = "force"
    /\ products_needing_transfers = <<>>
    /\ pc' = "respond"
    /\ UNCHANGED <<snapshot, config, zone_warehouse_map, df_forecast, df_transfers,
                   additional_transfers, products_needing_transfers,
                   all_truck_assignments, result, steps>>
    /\ UNCHANGED <<routing_models, db, prophet_model, parked>>

\* the success result for the surviving candidates and the assignments of the run
SuccessResult(transfers, assignments) ==
    [success |-> TRUE,
     message |-> "Successfully generated transfer suggestions",
     error |-> "",
     keys |-> {"success", "message", "transfer_records", "product_summary",
               "route_summary", "results"},
     transfer_records |-> prepare_response_data(transfers, assignments).transfer_records,
     product_summary |-> prepare_response_data(transfers, assignments).product_summary,
     route_summary |-> prepare_response_data(transfers, assignments).route_summary,
     results |-> [total_products |->
                      Cardinality({t.productid : t \in Range(transfers.rows)}),
                  total_transfers |-> Len(transfers.rows),
                  total_volume |-> SumTransferQty(transfers.rows)]]

\* prepare_response_data and the success result, for the locals of the run
Respond ==
    /\ pc = "respond"
    /\ steps' = Append(steps, "prepare_response_data")
    /\ result' = SuccessResult(df_transfers, all_truck_assignments)
    /\ pc' = "done"
    /\ UNCHANGED <<snapshot, config, zone_warehouse_map, df_forecast, df_transfers,
                   additional_transfers, products_needing_transfers,
                   all_truck_assignments>>
    /\ UNCHANGED <<routing_models, prophet_model, parked>>

\* a response step that takes the planned records out of the stock table
PrepareResponse_reserving_stock ==
    /\ Respond
    /\ db' = [db EXCEPT !.inventory =
                 SelectSeq(db.inventory,
                     LAMBDA r : \A t \in Range(df_transfers.rows) :
                                    t.recordid # r.recordid)]

\* the response step: the plan is returned and nothing is written
PrepareResponse ==
    /\ Respond
    /\ UNCHANGED db

----------------------------------------------------------------------------
(* The whole run, from the construction of the service *)

Init ==
    /\ pc = "fetch"
    /\ gdf_users = <<>>
    /\ gdf_warehouses = <<>>
    /\ df_sales = <<>>
    /\ df_inventory = <<>>
    /\ df_trucks = <<>>
    /\ max_trucks_to_use = 10
    /\ confidence_threshold = CONFIDENCE_THRESHOLD
    /\ zone_warehouse_map = <<>>
    /\ df_forecast = EmptyFrame
    /\ df_transfers = EmptyFrame
    /\ additional_transfers = EmptyFrame
    /\ products_needing_transfers = <<>>
    /\ all_truck_assignments = <<>>
    /\ result = NoResult
    /\ steps = <<>>
    /\ routing_models = <<>>
    /\ \E users \in UserFrames(MaxBuyers), k \in LocatedWarehouses : db \in Databases(users, k)
    /\ prophet_model = <<>>
    /\ parked = <<>>

Next ==
    \/ FetchData
    \/ Clustering
    \/ MapZones
    \/ Forecasting
    \/ BalanceAsForecast
    \/ CalculateInventoryDelta
    \/ BalanceFallback
    \/ ApplyConfidenceThreshold
    \/ SelectProducts
    \/ SolveProduct
    \/ EndRouting
    \/ ForceProduct
    \/ EndForcing
    \/ PrepareResponse

Spec == Init /\ [][Next]_vars

----------------------------------------------------------------------------
(* The run as a function: the results generate_transfer_suggestions can      *)
(* return for a database and a configuration when it runs alone, one result  *)
(* for every way the routing library can answer.                             *)

\* one loop of Step 4 over products, solvers[<<phase, product_id>>] the library's answer
RECURSIVE RouteProducts(_, _, _, _, _, _, _)
RouteProducts(products, transfers, database, trucks_limit, solvers, phase, assignments) ==
    IF products = <<>> THEN [raised |-> FALSE, assignments |-> assignments]
    ELSE LET call == IF phase = "solve"
                     THEN solve_redistribution_vrp(Head(products), transfers,
                              database.warehouses, database.trucks, trucks_limit,
                              solvers[<<phase, Head(products)>>])
                     ELSE force_vrp_solution(Head(products), transfers,
                              database.warehouses, database.trucks, trucks_limit,
                              solvers[<<phase, Head(products)>>])
         IN IF call.kind = "raised" THEN [raised |-> TRUE, assignments |-> assignments]
            ELSE RouteProducts(Tail(products), transfers, database, trucks_limit,
                     solvers, phase,
                     IF call.assignments # <<>>
                     THEN (Head(products) :> call.assignments) @@ assignments
                     ELSE assignments)

ForcedResult(forced, transfers) ==
    IF forced.raised THEN ExceptionFailure("routing model")
    ELSE SuccessResult(transfers, forced.assignments)

RoutedResult(routed, products, transfers, database, trucks_limit, solvers) ==
    IF routed.raised THEN ExceptionFailure("routing model")
    ELSE IF DOMAIN routed.assignments # {}
    THEN SuccessResult(transfers, routed.assignments)
    ELSE ForcedResult(RouteProducts(products, transfers, database, trucks_limit,
                                    solvers, "force", <<>>), transfers)

ProductsResults(products, transfers, database, trucks_limit) ==
    {RoutedResult(RouteProducts(products, transfers, database, trucks_limit, solvers,
                                "solve", <<>>),
                  products, transfers, database, trucks_limit, solvers) :
        solvers \in [{"solve", "force"} \X Range(products) ->
                        SolverResults(Len(head(database.trucks, trucks_limit)))]}

FilteredResults(transfers, database, trucks_limit) ==
    IF transfers.columns = "none" THEN {ExceptionFailure("'productid'")}
    ELSE ProductsResults(
             value_counts_index([k \in DOMAIN transfers.rows |->
                                    transfers.rows[k].productid]),
             transfers, database, trucks_limit)

BalanceResults(balance, database, trucks_limit, threshold) ==
    IF balance.raised # ""
    THEN {ExceptionFailure("The truth value of a DataFrame is ambiguous")}
    ELSE FilteredResults(apply_confidence_threshold(balance.frame, threshold),
                         database, trucks_limit)

MatchedResults(matched, database, trucks_limit, threshold) ==
    IF matched.rows = <<>>
    THEN BalanceResults(generate_warehouse_balance_transfers(database.inventory),
                        database, trucks_limit, threshold)
    ELSE FilteredResults(apply_confidence_threshold(matched, threshold),
                         database, trucks_limit)

ForecastResults(forecast, zone_map, database, trucks_limit, threshold) ==
    IF forecast.rows = <<>>
    THEN IF generate_warehouse_balance_transfers(database.inventory).raised # ""
         THEN {ExceptionFailure("The truth value of a DataFrame is ambiguous")}
         ELSE {ExceptionFailure("'zone_id'")}
    ELSE MatchedResults(calculate_inventory_delta(forecast.rows, database.inventory,
                                                  zone_map),
                        database, trucks_limit, threshold)

MappedResults(mapped, users_with_zones, database, trucks_limit, threshold, prophets) ==
    IF mapped.raised # ""
    THEN {ExceptionFailure("attempt to get argmin of an empty sequence")}
    ELSE UNION {ForecastResults(
                    run_forecasting(merge_sales_with_zones(database.sales,
                                                           users_with_zones),
                                    DEFAULT_FORECAST_DAYS, prophet),
                    mapped.map, database, trucks_limit, threshold) :
                prophet \in prophets}

ClusteredResults(clustered, database, trucks_limit, threshold, prophets) ==
    IF clustered.none
    THEN {EarlyFailure("No user data available for clustering",
                       "Insufficient user data")}
    ELSE MappedResults(map_zones_to_warehouses(clustered.users, database.warehouses),
                       clustered.users, database, trucks_limit, threshold, prophets)

generate_transfer_suggestions(database, trucks_limit, threshold, prophets) ==
    {EarlyFailure("Failed to fetch data from database", "Database connection error")}
    \cup ClusteredResults(run_clustering(database.users), database, trucks_limit,
                          threshold, prophets)

----------------------------------------------------------------------------
(* The worker pool: two invocations at once, each with a service object of   *)
(* its own, over one database.  Any of them runs next; the one that does not *)
(* run is parked with its locals.                                            *)

Invocation ==
    [pc |-> pc, gdf_users |-> gdf_users, gdf_warehouses |-> gdf_warehouses,
     df_sales |-> df_sales, df_inventory |-> df_inventory, df_trucks |-> df_trucks,
     max_trucks_to_use |-> max_trucks_to_use,
     confidence_threshold |-> confidence_threshold,
     zone_warehouse_map |-> zone_warehouse_map, df_forecast |-> df_forecast,
     df_transfers |-> df_transfers, additional_transfers |-> additional_transfers,
     products_needing_transfers |-> products_needing_transfers,
     all_truck_assignments |-> all_truck_assignments, result |-> result,
     steps |-> steps, routing_models |-> routing_models]

\* the invocation that runs now is this one
Running(invocation) ==
    /\ pc = invocation.pc
    /\ gdf_users = invocation.gdf_users
    /\ gdf_warehouses = invocation.gdf_warehouses
    /\ df_sales = invocation.df_sales
    /\ df_inventory = invocation.df_inventory
    /\ df_trucks = invocation.df_trucks
    /\ max_trucks_to_use = invocation.max_trucks_to_use
    /\ confidence_threshold = invocation.confidence_threshold
    /\ zone_warehouse_map = invocation.zone_warehouse_map
    /\ df_forecast = invocation.df_forecast
    /\ df_transfers = invocation.df_transfers
    /\ additional_transfers = invocation.additional_transfers
    /\ products_needing_transfers = invocation.products_needing_transfers
    /\ all_truck_assignments = invocation.all_truck_assignments
    /\ result = invocation.result
    /\ steps = invocation.steps
    /\ routing_models = invocation.routing_models

\* the invocation runs next, from where it stood
Resume(invocation) ==
    /\ pc' = invocation.pc
    /\ gdf_users' = invocation.gdf_users
    /\ gdf_warehouses' = invocation.gdf_warehouses
    /\ df_sales' = invocation.df_sales
    /\ df_inventory' = invocation.df_inventory
    /\ df_trucks' = invocation.df_trucks
    /\ max_trucks_to_use' = invocation.max_trucks_to_use
    /\ confidence_threshold' = invocation.confidence_threshold
    /\ zone_warehouse_map' = invocation.zone_warehouse_map
    /\ df_forecast' = invocation.df_forecast
    /\ df_transfers' = invocation.df_transfers
    /\ additional_transfers' = invocation.additional_transfers
    /\ products_needing_transfers' = invocation.products_needing_transfers
    /\ all_truck_assignments' = invocation.all_truck_assignments
    /\ result' = invocation.result
    /\ steps' = invocation.steps
    /\ routing_models' = invocation.routing_models

\* the pool runs the other invocation next
Switch ==
    /\ parked # <<>>
    /\ parked' = <<Invocation>>
    /\ Resume(parked[1])
    /\ UNCHANGED <<db, prophet_model>>

\* three buyers at one place: one zone, nearest to warehouse 1
ThreeBuyers == [i \in 1..3 |-> [userid |-> i, location |-> 0, zone_id |-> NoZoneColumn]]

\* buyer 1 bought 10 kg of product 1 on each of the days 1..days
DailySales(days) ==
    [d \in 1..days |-> [productid |-> 1, quantitykg |-> 10, orderdate |-> d, buyerid |-> 1]]

PoolDatabases ==
    UNION {
        {[users |-> users, sales |-> DailySales(days), warehouses |-> WarehouseFrame(k),
          inventory |-> inventory, trucks |-> TruckFrame(t)] :
            users \in {<<>>, ThreeBuyers},
            days \in {1, 2, MIN_DATA_POINTS_FOR_PROPHET},
            inventory \in StockFrames(k),
            t \in 0..2} :
        k \in {1, Cardinality(WarehouseIds)}}

\* the service object and the locals of an invocation at its start
NewInvocation(trucks_limit, threshold) ==
    [pc |-> "fetch", gdf_users |-> <<>>, gdf_warehouses |-> <<>>, df_sales |-> <<>>,
     df_inventory |-> <<>>, df_trucks |-> <<>>, max_trucks_to_use |-> trucks_limit,
     confidence_threshold |-> threshold, zone_warehouse_map |-> <<>>,
     df_forecast |-> EmptyFrame, df_transfers |-> EmptyFrame,
     additional_transfers |-> EmptyFrame, products_needing_transfers |-> <<>>,
     all_truck_assignments |-> <<>>, result |-> NoResult, steps |-> <<>>,
     routing_models |-> <<>>]

InitPool ==
    /\ db \in PoolDatabases
    /\ prophet_model = <<>>
    /\ \E trucks_limit \in {1, 2} :
          Running(NewInvocation(trucks_limit, CONFIDENCE_THRESHOLD))
    /\ \E trucks_limit \in {1, 2} :
          parked = <<NewInvocation(trucks_limit, CONFIDENCE_THRESHOLD)>>

NextPool ==
    \/ Next
    \/ Switch

SpecPool == InitPool /\ [][NextPool]_vars

----------------------------------------------------------------------------
(* The transfer generators on their own: the run from the point where the   *)
(* forecasts are known, for every forecast frame, zone map and inventory of *)
(* the bounded sets.                                                        *)

Zones == {0, 1}

ZoneMaps ==
    {(0 :> 1) @@ (1 :> 2), (0 :> 2) @@ (1 :> 3), (0 :> 2) @@ (1 :> 2)}

\* the forecast frames for product 1: at most one row per zone, in key order
ForecastFrames ==
    {DataFrame("forecast",
        LET zs == SortedInts({z \in Zones : f[z] # <<>>})
        IN [k \in DOMAIN zs |->
               [productid |-> 1, zone_id |-> zs[k],
                forecasteddemandkg |-> f[zs[k]][1],
                forecast_confidence |-> f[zs[k]][2]]]) :
     f \in [Zones -> {<<>>} \cup ForecastOutcomes]}

InitMatch ==
    /\ pc = "forecasted"
    /\ gdf_users = <<>>
    /\ gdf_warehouses = WarehouseFrame(Cardinality(WarehouseIds))
    /\ df_sales = <<>>
    /\ df_inventory \in InventoryFrames(MaxRecords, StockedWarehouseIds, {1}, QtySet)
                       \cup {TwoSurplusInventory}
    /\ df_trucks = TruckFrame(1)
    /\ max_trucks_to_use = 10
    /\ confidence_threshold = CONFIDENCE_THRESHOLD
    /\ zone_warehouse_map \in ZoneMaps
    /\ df_forecast \in ForecastFrames
    /\ df_transfers = EmptyFrame
    /\ additional_transfers = EmptyFrame
    /\ products_needing_transfers = <<>>
    /\ all_truck_assignments = <<>>
    /\ result = NoResult
    /\ steps = <<"fetch_data", "run_clustering", "map_zones_to_warehouses",
                 "run_forecasting">>
    /\ routing_models = <<>>
    /\ db = NoDatabase
    /\ prophet_model = <<>>
    /\ parked = <<>>

NextMatch ==
    \/ BalanceAsForecast
    \/ CalculateInventoryDelta
    \/ BalanceFallback

SpecMatch == InitMatch /\ [][NextMatch]_vars

----------------------------------------------------------------------------
(* The confidence filter on its own, for every candidate frame and          *)
(* threshold of the bounded sets.                                           *)

CandidateFrames ==
    UNION {
        {DataFrame("transfers",
            [i \in 1..k |->
                [recordid |-> 100 + i, productid |-> f[i][1],
                 from_warehouseid |-> 1, to_warehouseid |-> 2,
                 transfer_qty |-> 200, registration_date |-> i,
                 confidence_score |-> f[i][2]]]) :
         f \in [1..k -> ProductIds \X CandidateConfSet]} : k \in 0..MaxCandidates}

InitFilter ==
    /\ pc = "filter"
    /\ gdf_users = <<>>
    /\ gdf_warehouses = WarehouseFrame(Cardinality(WarehouseIds))
    /\ df_sales = <<>>
    /\ df_inventory = <<>>
    /\ df_trucks = TruckFrame(1)
    /\ max_trucks_to_use = 10
    /\ confidence_threshold \in ThresholdSet
    /\ zone_warehouse_map = <<>>
    /\ df_forecast = EmptyFrame
    /\ df_transfers \in CandidateFrames
    /\ additional_transfers = EmptyFrame
    /\ products_needing_transfers = <<>>
    /\ all_truck_assignments = <<>>
    /\ result = NoResult
    /\ steps = <<>>
    /\ routing_models = <<>>
    /\ db = NoDatabase
    /\ prophet_model = <<>>
    /\ parked = <<>>

NextFilter == ApplyConfidenceThreshold

SpecFilter == InitFilter /\ [][NextFilter]_vars

----------------------------------------------------------------------------
(* The forecaster on its own: the run from the point where the buyers have  *)
(* their zones, for every sales history and seasonal model of the bounded   *)
(* sets.                                                                    *)

\* buyer 1 in zone 0 and buyer 2 in zone zone_id
ZonedBuyers(zone_id) ==
    <<[userid |-> 1, location |-> 0, zone_id |-> 0],
      [userid |-> 2, location |-> 1, zone_id |-> zone_id]>>

\* the quantities sold day after day: the same every day, or more every day
SalePatterns == {"steady", "rising"}

SoldOn(pattern, day) == IF pattern = "steady" THEN 10 ELSE 10 * day

\* the days of history a buyer has of a product
HistoryDays == {0, 1, 2, MIN_DATA_POINTS_FOR_PROPHET}

\* the sales of one buyer of one product on the days 1..days
History(product_id, buyer_id, days, pattern) ==
    [d \in 1..days |-> [productid |-> product_id, quantitykg |-> SoldOn(pattern, d),
                        orderdate |-> d, buyerid |-> buyer_id]]

\* the sale frames: a history for each of the products and the buyers 1 and 2
HistoryFrames ==
    {History(1, 1, n[1], pattern) \o History(1, 2, n[2], pattern)
     \o History(2, 1, n[3], pattern) \o History(2, 2, n[4], pattern) :
        n \in [1..4 -> HistoryDays], pattern \in SalePatterns}

InitForecast ==
    /\ pc = "forecast"
    /\ \E zone_id \in {0, 1, Outlier} : gdf_users = ZonedBuyers(zone_id)
    /\ gdf_warehouses = WarehouseFrame(Cardinality(WarehouseIds))
    /\ df_sales \in HistoryFrames
    /\ df_inventory = <<>>
    /\ df_trucks = TruckFrame(1)
    /\ max_trucks_to_use = 10
    /\ confidence_threshold = CONFIDENCE_THRESHOLD
    /\ zone_warehouse_map = (0 :> 1) @@ (1 :> 2)
    /\ df_forecast = EmptyFrame
    /\ df_transfers = EmptyFrame
    /\ additional_transfers = EmptyFrame
    /\ products_needing_transfers = <<>>
    /\ all_truck_assignments = <<>>
    /\ result = NoResult
    /\ steps = <<"fetch_data", "run_clustering", "map_zones_to_warehouses">>
    /\ routing_models = <<>>
    /\ db = NoDatabase
    /\ prophet_model = <<>>
    /\ parked = <<>>

NextForecast == Forecasting

SpecForecast == InitForecast /\ [][NextForecast]_vars

----------------------------------------------------------------------------
(* The routing stage on its own: the run from the filtered candidate set on, *)
(* for the candidate sets, warehouse frames, fleets and truck limits of the  *)
(* bounded sets.                                                             *)

\* (from, to) of a candidate; warehouse 3 may have no location
Routes == {<<1, 2>>, <<1, 3>>, <<2, 1>>}

RouteQty == {300, 1500}

\* within one product no warehouse is both a source and a destination, and the
\* rows of a product come before the rows of the next one
SourcesApartFromDestinations(rows) ==
    /\ \A a, b \in Range(rows) :
           a.productid = b.productid => a.from_warehouseid # b.to_warehouseid
    /\ \A i, j \in DOMAIN rows : i < j => rows[i].productid <= rows[j].productid

\* the filtered candidate frames of one to MaxTransfers rows
RouteTransferFrames ==
    UNION {
        {frame \in
            {DataFrame("transfers",
                [i \in 1..k |->
                    [recordid |-> 100 + i, productid |-> f[i][1],
                     from_warehouseid |-> f[i][2][1], to_warehouseid |-> f[i][2][2],
                     transfer_qty |-> f[i][3], registration_date |-> i,
                     confidence_score |-> 700]]) :
             f \in [1..k -> ProductIds \X Routes \X RouteQty]} :
            SourcesApartFromDestinations(frame.rows)} : k \in 1..MaxTransfers}

\* the fleets: the capacities of the available trucks, in query order
FleetCapacities == {<<>>, <<500>>, <<1000, 500>>}

Fleet(capacities) ==
    [i \in DOMAIN capacities |-> [truckid |-> 10 + i, loadcapacitykg |-> capacities[i]]]

InitRoute ==
    /\ pc = "select"
    /\ gdf_users = <<>>
    /\ \E k \in {2, 3} : gdf_warehouses = WarehouseFrame(k)
    /\ df_sales = <<>>
    /\ df_inventory = <<>>
    /\ \E capacities \in FleetCapacities : df_trucks = Fleet(capacities)
    /\ max_trucks_to_use \in {1, 2}
    /\ max_trucks_to_use < Len(df_trucks) \/ max_trucks_to_use = 2
    /\ confidence_threshold = CONFIDENCE_THRESHOLD
    /\ zone_warehouse_map = <<>>
    /\ df_forecast = EmptyFrame
    /\ df_transfers \in RouteTransferFrames
    /\ additional_transfers = EmptyFrame
    /\ products_needing_transfers = <<>>
    /\ all_truck_assignments = <<>>
    /\ result = NoResult
    /\ steps = <<"apply_confidence_threshold">>
    /\ routing_models = <<>>
    /\ db = NoDatabase
    /\ prophet_model = <<>>
    /\ parked = <<>>

NextRoute ==
    \/ SelectProducts
    \/ SolveProduct
    \/ EndRouting
    \/ ForceProduct
    \/ EndForcing
    \/ PrepareResponse

SpecRoute == InitRoute /\ [][NextRoute]_vars

----------------------------------------------------------------------------
(* The routing stage for one candidate that no truck can carry in one visit: *)
(* the quantities and the truck capacities of the bounded sets, to a         *)
(* warehouse with or without a location.                                     *)

SplitQty == {700, 800, 900, 1000, 1300}

SplitCapacities == {300, 400, 600}

InitSplit ==
    /\ pc = "select"
    /\ gdf_users = <<>>
    /\ gdf_warehouses = WarehouseFrame(2)
    /\ df_sales = <<>>
    /\ df_inventory = <<>>
    /\ \E capacity \in SplitCapacities : df_trucks = Fleet(<<capacity>>)
    /\ max_trucks_to_use = 2
    /\ confidence_threshold = CONFIDENCE_THRESHOLD
    /\ zone_warehouse_map = <<>>
    /\ df_forecast = EmptyFrame
    /\ \E qty \in SplitQty, to_warehouseid \in {2, 3} :
          df_transfers =
              DataFrame("transfers",
                  <<[recordid |-> 101, productid |-> 1, from_warehouseid |-> 1,
                     to_warehouseid |-> to_warehouseid, transfer_qty |-> qty,
                     registration_date |-> 1, confidence_score |-> 700]>>)
    /\ additional_transfers = EmptyFrame
    /\ products_needing_transfers = <<>>
    /\ all_truck_assignments = <<>>
    /\ result = NoResult
    /\ steps = <<"apply_confidence_threshold">>
    /\ routing_models = <<>>
    /\ db = NoDatabase
    /\ prophet_model = <<>>
    /\ parked = <<>>

SpecSplit == InitSplit /\ [][NextRoute]_vars

----------------------------------------------------------------------------
(* Properties *)

\* every transfer candidate a generator has produced in this run
Candidates ==
    Range(df_transfers.rows) \cup Range(additional_transfers.rows)
    \cup (IF df_forecast.columns = "transfers" THEN Range(df_forecast.rows) ELSE {})

Called(method) == method \in Range(steps)

FirstCall(method) == CHOOSE i \in DOMAIN steps :
                        steps[i] = method /\ \A j \in 1..(i - 1) : steps[j] # method

\* the generator chain is over: the filter is next, or the run has ended in it or after it
ChainOver ==
    /\ Called("calculate_inventory_delta") \/ Called("generate_warehouse_balance_transfers")
    /\ pc \in {"filter", "select", "route", "force", "respond", "done"}

(* C1: in the candidate set of one run every inventory record id appears in  *)
(* at most one transfer candidate, so the quantity drawn from a record is at *)
(* most its quantity_kg.                                                     *)
C1_RecordInOneCandidate ==
    \A i, j \in DOMAIN df_transfers.rows :
        df_transfers.rows[i].recordid = df_transfers.rows[j].recordid => i = j

(* C2: every transfer candidate, whichever generator created it, has         *)
(* transfer_qty equal to the full quantity_kg of the inventory record it     *)
(* references.                                                               *)
C2_WholeRecordOnly ==
    \A t \in Candidates :
        \E r \in Range(df_inventory) :
            r.recordid = t.recordid /\ t.transfer_qty = r.quantitykg

C2_Witness ==
    /\ pc = "filter"
    /\ Called("calculate_inventory_delta")
    /\ ~Called("generate_warehouse_balance_transfers")
    /\ Len(df_transfers.rows) >= 2

(* C3: the generators are invoked in the order forecast-based, balance,      *)
(* forced-minimum, and whenever the snapshot holds an in-stock inventory     *)
(* record the chain ends with a non-empty candidate set.                     *)
C3_ChainOrderAndOutput ==
    /\ (Called("calculate_inventory_delta")
        /\ Called("generate_warehouse_balance_transfers"))
       => FirstCall("calculate_inventory_delta")
          < FirstCall("generate_warehouse_balance_transfers")
    /\ (ChainOver /\ df_inventory # <<>>) => df_transfers.rows # <<>>

(* C4: a run whose forecaster yields no forecasts, or whose forecast-based   *)
(* matching yields no candidates, goes on to the fallback generators and,    *)
(* when in-stock inventory exists, returns success=true.                     *)
C4_FallbackRunSucceeds ==
    (/\ pc = "done"
     /\ Called("generate_warehouse_balance_transfers")
     /\ df_inventory # <<>>
     /\ gdf_warehouses # <<>>
     /\ df_trucks # <<>>)
    => result.success

(* C5: apply_confidence_threshold returns exactly the candidates at or above *)
(* the threshold when at least the minimum of them exist; otherwise the      *)
(* minimum highest-confidence candidates when that many candidates exist;    *)
(* otherwise all candidates.  The result is a subset of the input with at    *)
(* least min(minimum, candidate count) rows.                                 *)
C5_FilterResult ==
    [][(pc = "filter" /\ pc' = "select") =>
        LET in == df_transfers.rows
            out == df_transfers'.rows
            high == SelectSeq(in, LAMBDA t : t.confidence_score >= confidence_threshold)
        IN /\ Len(high) >= MINIMUM_TRANSFER_SUGGESTIONS => out = high
           /\ (Len(high) < MINIMUM_TRANSFER_SUGGESTIONS
               /\ Len(in) >= MINIMUM_TRANSFER_SUGGESTIONS)
              => /\ Len(out) = MINIMUM_TRANSFER_SUGGESTIONS
                 /\ \A o \in Range(out), r \in Range(in) :
                        r \notin Range(out) => o.confidence_score >= r.confidence_score
           /\ Len(in) < MINIMUM_TRANSFER_SUGGESTIONS => out = in
           /\ Len(out) >= Min(MINIMUM_TRANSFER_SUGGESTIONS, Len(in))
           /\ Range(out) \subseteq Range(in)]_vars

C5_Witness ==
    /\ pc = "select"
    /\ Len(df_transfers.rows) = MINIMUM_TRANSFER_SUGGESTIONS
    /\ \A t \in Range(df_transfers.rows) : t.confidence_score < confidence_threshold

(* C6: every transfer candidate has a confidence score within [0.1, 1.0],    *)
(* hence within [0.0, 1.0]: the forecast-based score for every forecast      *)
(* confidence and quantity, and the fixed scores of the fallback generators. *)
C6_ConfidenceInRange ==
    \A t \in Candidates : 100 <= t.confidence_score /\ t.confidence_score <= ConfUnit

C6_Witness ==
    /\ Called("calculate_inventory_delta")
    /\ ~Called("generate_warehouse_balance_transfers")
    /\ \E t \in Range(df_transfers.rows) : t.confidence_score = ConfUnit

\* Scenario A: W1 holds 500 kg of product 1, no other warehouse holds any; the
\* forecast is 200 kg for the zone of W2 and nothing, or 0 kg, for the zone of W1
ScenarioA ==
    /\ df_inventory # <<>>
    /\ \A r \in Range(df_inventory) : r.warehouseid = 1 /\ r.productid = 1
    /\ TotalStock(df_inventory, 1, 1) = 500
    /\ zone_warehouse_map = (0 :> 1) @@ (1 :> 2)
    /\ df_forecast.columns = "forecast"
    /\ \E f \in Range(df_forecast.rows) : f.zone_id = 1 /\ f.forecasteddemandkg = 200
    /\ \A f \in Range(df_forecast.rows) : f.zone_id = 0 => f.forecasteddemandkg = 0

\* the forecast-based matcher has just returned
Matched == pc \in {"filter", "fallback"} /\ Called("calculate_inventory_delta")

(* C7 as stated: in scenario A, for any split of the 500 kg into records,    *)
(* the run produces exactly one candidate, from W1 to W2, with confidence    *)
(* above 0.                                                                  *)
C7_ExactlyOneCandidate ==
    (ScenarioA /\ ChainOver) =>
        /\ Len(df_transfers.rows) = 1
        /\ \A t \in Range(df_transfers.rows) :
              t.from_warehouseid = 1 /\ t.to_warehouseid = 2 /\ t.confidence_score > 0

(* C7 amended: in scenario A the forecast-based matcher produces a candidate *)
(* exactly when W1 holds a record of at most 200 kg, and exactly one when W1 *)
(* holds exactly one such record; every candidate moves a whole record from  *)
(* W1 to W2 with confidence above 0, and the candidates total at most 200 kg.*)
C7_CandidatesOfFittingRecords ==
    (ScenarioA /\ Matched) =>
        LET fitting == {r \in Range(df_inventory) : r.quantitykg <= 200}
        IN /\ df_transfers.rows # <<>> <=> fitting # {}
           /\ Cardinality(fitting) = 1 => Len(df_transfers.rows) = 1
           /\ SumTransferQty(df_transfers.rows) <= 200
           /\ \A t \in Range(df_transfers.rows) :
                 /\ t.from_warehouseid = 1 /\ t.to_warehouseid = 2
                 /\ t.confidence_score > 0
                 /\ \E r \in fitting :
                       r.recordid = t.recordid /\ r.quantitykg = t.transfer_qty

C7_Witness ==
    /\ ScenarioA
    /\ Matched
    /\ Len(df_inventory) = 2
    /\ Len(df_transfers.rows) = 1

\* the buyers chained to buyer i by hops of at most the clustering radius
RECURSIVE Region(_, _)
Region(users, members) ==
    LET grown == members \cup
            {j \in DOMAIN users :
                \E i \in members :
                    Abs(users[i].location - users[j].location)
                        <= DEFAULT_DBSCAN_EPS_METERS}
    IN IF grown = members THEN members ELSE Region(users, grown)

Clustered == Called("run_clustering") /\ gdf_users # <<>>

OutlierSales ==
    {r \in Range(df_sales) :
        \E u \in Range(gdf_users) : u.userid = r.buyerid /\ u.zone_id = Outlier}

(* C8: outlier buyers (zone -1), in particular all buyers of a region with   *)
(* fewer buyers than min_samples, are never used: the zone map has no entry  *)
(* for -1, no forecast record is of zone -1, and the forecasts are those of  *)
(* the sales of the other buyers alone.                                      *)
C8_OutliersUnused ==
    /\ Clustered =>
          \A i \in DOMAIN gdf_users :
              Cardinality(Region(gdf_users, {i})) < DEFAULT_DBSCAN_MIN_SAMPLES
                  => gdf_users[i].zone_id = Outlier
    /\ Outlier \notin DOMAIN zone_warehouse_map
    /\ df_forecast.columns = "forecast" =>
          \A f \in Range(df_forecast.rows) :
              f.zone_id # Outlier /\ f.zone_id \in DOMAIN zone_warehouse_map
    /\ (Called("run_forecasting") /\ df_forecast.columns # "transfers") =>
          \E prophet \in ProphetOutcomes :
              df_forecast =
                  run_forecasting(
                      merge_sales_with_zones(
                          SelectSeq(df_sales, LAMBDA r : r \notin OutlierSales),
                          gdf_users),
                      DEFAULT_FORECAST_DAYS, prophet)

C8_Witness ==
    /\ pc = "forecasted"
    /\ \E u \in Range(gdf_users) : u.zone_id # Outlier
    /\ \E r1 \in OutlierSales, r2 \in OutlierSales :
          r1.buyerid = r2.buyerid /\ r1.orderdate # r2.orderdate

(* C9: with no buyer locations in the snapshot the run stops after the       *)
(* clustering step and returns success=false with the insufficient-data      *)
(* message and no transfer, product-summary or route-summary entries.        *)
C9_NoBuyersFailure ==
    (pc = "done" /\ Called("run_clustering") /\ gdf_users = <<>>) =>
        /\ ~result.success
        /\ result.message = "No user data available for clustering"
        /\ result.error = "Insufficient user data"
        /\ result.transfer_records = <<>>
        /\ result.product_summary = <<>>
        /\ result.route_summary = <<>>
        /\ steps = <<"fetch_data", "run_clustering">>

C9_Witness ==
    /\ pc = "done"
    /\ gdf_users = <<>>
    /\ steps = <<"fetch_data", "run_clustering">>

(* C10: when clustering labels every buyer an outlier the run returns the    *)
(* same insufficient-clustering-data failure as for zero buyer locations,    *)
(* distinguishable from the data-unavailable failure and from the generic    *)
(* unexpected-exception failure.                                             *)
C10_AllOutliersFailure ==
    (/\ pc = "done"
     /\ Clustered
     /\ \A u \in Range(gdf_users) : u.zone_id = Outlier)
    => /\ ~result.success
       /\ result.message = "No user data available for clustering"
       /\ result.error = "Insufficient user data"

(* C11: generate_transfer_suggestions never raises to its caller: a failed   *)
(* fetch and an exception in any later stage end the run with a result of    *)
(* success = false, a message and an error, carrying no transfer records,    *)
(* no product summary and no route summary.                                  *)
C11_FailureWithoutPartialOutput ==
    (pc = "done" /\ ~result.success)
    => /\ {"success", "message", "error"} \subseteq result.keys
       /\ result.message # ""
       /\ result.error # ""
       /\ result.transfer_records = <<>>
       /\ result.product_summary = <<>>
       /\ result.route_summary = <<>>

\* the routing stage raised after the filter had left candidates
C11_Witness ==
    /\ pc = "done"
    /\ result = ExceptionFailure("routing model")
    /\ Called("solve_redistribution_vrp")
    /\ df_transfers.rows # <<>>

\* the products of the surviving candidates
CandidateProducts == {t.productid : t \in Range(df_transfers.rows)}

(* C12: for every product that has at least one surviving transfer candidate *)
(* the routing stage ends with a non-empty set of route assignments for that *)
(* product, also when the solver step returned no assignments for it while   *)
(* other products of the run were routed.                                    *)
C12_EveryProductRouted ==
    (pc = "respond" /\ df_transfers.columns = "transfers")
    => \A product_id \in CandidateProducts :
          /\ product_id \in DOMAIN all_truck_assignments
          /\ all_truck_assignments[product_id] # <<>>

(* C13: every transfer candidate that survives the confidence filter appears *)
(* exactly once in the transfer_records of the response, whatever the        *)
(* routing outcome for its product.                                          *)
C13_SurvivorsInResponse ==
    (/\ pc = "done"
     /\ Called("apply_confidence_threshold")
     /\ df_transfers.columns = "transfers")
    => /\ Len(result.transfer_records) = Len(df_transfers.rows)
       /\ \A k \in DOMAIN df_transfers.rows :
             /\ result.transfer_records[k].product_record_id = df_transfers.rows[k].recordid
             /\ result.transfer_records[k].product_id = df_transfers.rows[k].productid
             /\ result.transfer_records[k].quantity_kg = df_transfers.rows[k].transfer_qty

\* the sum of the positive (deficit) demands of a demand vector
TotalDeficit(demands) == SumSeq(SelectSeq(demands, LAMBDA d : d > 0))

\* the routing models of the run in which the net deficit exceeds the fleet
OverFleet ==
    {product_id \in DOMAIN routing_models :
        TotalDeficit(routing_models[product_id].net_demands)
            > SumSeq(routing_models[product_id].truck_capacities)}

(* C14: when the total net deficit of a product exceeds the total capacity   *)
(* of the trucks in use, every positive node demand handed to the routing    *)
(* model is its net demand times one common factor <= 1 (truncated to a      *)
(* whole number), and the scaled deficit demands sum to at most the sum of   *)
(* the truck capacities.                                                     *)
C14_DeficitsScaledToFleet ==
    \A product_id \in OverFleet :
        LET model == routing_models[product_id]
            total_deficit == TotalDeficit(model.net_demands)
            capacity == SumSeq(model.truck_capacities)
        IN /\ \E numerator \in 0..capacity :
                 \A i \in DOMAIN model.net_demands :
                     model.net_demands[i] > 0 =>
                         model.scaled_demands[i]
                             = (model.net_demands[i] * numerator) \div total_deficit
           /\ TotalDeficit(model.scaled_demands) <= capacity
           /\ TotalDeficit(model.demands) <= capacity

\* a model with two deficit nodes, both scaled down
C14_Witness ==
    \E product_id \in OverFleet :
        LET model == routing_models[product_id]
        IN /\ Called("solve_redistribution_vrp")
           /\ Cardinality({i \in DOMAIN model.net_demands :
                              /\ model.net_demands[i] > 0
                              /\ model.scaled_demands[i] < model.net_demands[i]
                              /\ model.scaled_demands[i] > 0}) >= 2

\* the least number of loads of at most max_capacity that hold |demand|
Loads(demand, max_capacity) ==
    CHOOSE n \in 1..(Abs(demand) + 1) :
        /\ n * max_capacity >= Abs(demand)
        /\ (n - 1) * max_capacity < Abs(demand) \/ n = 1

\* the number of nodes the model has for the nodes before node i
RECURSIVE NodesBefore(_, _, _)
NodesBefore(demands, i, max_capacity) ==
    IF i = 1 THEN 0
    ELSE NodesBefore(demands, i - 1, max_capacity) + Loads(demands[i - 1], max_capacity)

\* the routing models of the run in which some node exceeds the largest truck
OverTruck ==
    {product_id \in DOMAIN routing_models :
        \E i \in DOMAIN routing_models[product_id].scaled_demands :
            Abs(routing_models[product_id].scaled_demands[i])
                > MaxOf(Range(routing_models[product_id].truck_capacities))}

(* C15: when the absolute demand of a node, as it stands when the model is   *)
(* set up (after the scaling of the deficits), exceeds the largest truck     *)
(* capacity, the node is replaced before solving by ceil(|demand| /          *)
(* max_capacity) sub-visits at the same coordinates, each of absolute demand *)
(* at most the largest truck capacity; the nodes within capacity are left    *)
(* unchanged, and a model without such a node is left as it is.              *)
C15_LargeNodesSplit ==
    \A product_id \in DOMAIN routing_models :
        LET model == routing_models[product_id]
            max_capacity == MaxOf(Range(model.truck_capacities))
            nodes == DOMAIN model.scaled_demands
        IN /\ Len(model.demands)
                 = NodesBefore(model.scaled_demands, Len(model.scaled_demands) + 1,
                               max_capacity)
           /\ Len(model.new_coords) = Len(model.demands)
           /\ \A i \in nodes :
                 \A k \in 1..Loads(model.scaled_demands[i], max_capacity) :
                     LET node == NodesBefore(model.scaled_demands, i, max_capacity) + k
                     IN /\ model.new_coords[node] = model.coords[i]
                        /\ Abs(model.demands[node]) <= max_capacity
                        /\ Abs(model.scaled_demands[i]) <= max_capacity
                              => model.demands[node] = model.scaled_demands[i]

\* a model in which one node was split and another was within capacity
C15_Witness ==
    \E product_id \in OverTruck :
        LET model == routing_models[product_id]
        IN /\ Called("solve_redistribution_vrp")
           /\ Len(model.demands) > Len(model.scaled_demands)
           /\ \E i \in DOMAIN model.scaled_demands :
                 /\ model.scaled_demands[i] # 0
                 /\ Abs(model.scaled_demands[i])
                        <= MaxOf(Range(model.truck_capacities))

\* the statement read on the net demand (inbound minus outbound) of the node
C15_NetDemandSplit ==
    \A product_id \in DOMAIN routing_models :
        LET model == routing_models[product_id]
            max_capacity == MaxOf(Range(model.truck_capacities))
        IN \A i \in DOMAIN model.net_demands :
              Abs(model.net_demands[i]) > max_capacity
              => /\ Cardinality({node \in DOMAIN model.new_coords :
                                    model.new_coords[node] = model.coords[i]})
                       = Loads(model.net_demands[i], max_capacity)
                 /\ \A node \in DOMAIN model.new_coords :
                       model.new_coords[node] = model.coords[i]
                       => Abs(model.demands[node]) <= max_capacity

\* C16: the planner writes nothing to the database and the invocations of the
\* worker pool share no state: no step of any invocation, under any interleaving of
\* two invocations, changes a table of the database, and the result an invocation
\* returns is one that generate_transfer_suggestions returns when it runs alone on
\* that database with the invocation's max_trucks_to_use and confidence_threshold
\* (the seasonal model being the function it has been so far).
C16_ReadOnlyAndIsolated ==
    /\ [](pc = "done" =>
             result \in generate_transfer_suggestions(db, max_trucks_to_use,
                                                       confidence_threshold,
                                                       ProphetChoices))
    /\ [][db' = db]_vars

\* C16 witness: both invocations of the pool have returned plans, different ones,
\* from a stocked database
C16_Witness ==
    /\ parked # <<>>
    /\ pc = "done"
    /\ parked[1].pc = "done"
    /\ result.success
    /\ parked[1].result.success
    /\ result # parked[1].result
    /\ db.inventory # <<>>

\* the invocation has called the method
HasCalled(invocation, method) == method \in Range(invocation.steps)

\* the two invocations of the pool have the same configuration
SameConfiguration ==
    /\ parked # <<>>
    /\ max_trucks_to_use = parked[1].max_trucks_to_use
    /\ confidence_threshold = parked[1].confidence_threshold

SeriesOf(row) ==
    DailySeries(merge_sales_with_zones(df_sales, gdf_users), row.productid, row.zone_id)

\* C18: every row run_forecasting returns, whether from the simple average, from the
\* seasonal model or from the average taken after the seasonal model failed, has a
\* forecast demand of at least 0 and a confidence from 0 to 1, belongs to a product
\* and a zone that have sales, and is the only row of that product and zone.
C18_ForecastRecords ==
    (pc = "forecasted" /\ df_forecast.columns = "forecast") =>
        \A i \in DOMAIN df_forecast.rows :
            LET row == df_forecast.rows[i]
            IN /\ row.forecasteddemandkg >= 0
               /\ row.forecast_confidence >= 0
               /\ row.forecast_confidence <= ConfUnit
               /\ SeriesOf(row) # <<>>
               /\ \A j \in DOMAIN df_forecast.rows :
                      (df_forecast.rows[j].productid = row.productid
                       /\ df_forecast.rows[j].zone_id = row.zone_id) => j = i

\* C18 witness: one frame has a row from each path: a short history, a long history
\* the seasonal model answered, and a long history on which it failed
C18_Witness ==
    /\ pc = "forecasted"
    /\ prophet_model # <<>>
    /\ \E r \in Range(df_forecast.rows) :
          Len(SeriesOf(r)) < MIN_DATA_POINTS_FOR_PROPHET
    /\ \E r \in Range(df_forecast.rows) :
          /\ Len(SeriesOf(r)) >= MIN_DATA_POINTS_FOR_PROPHET
          /\ ~prophet_model[1][r.productid].fails
    /\ \E r \in Range(df_forecast.rows) :
          /\ Len(SeriesOf(r)) >= MIN_DATA_POINTS_FOR_PROPHET
          /\ prophet_model[1][r.productid].fails

\* calculate_inventory_delta has just returned the candidates in df_transfers
MatcherReturned == pc = "filter" /\ steps[Len(steps)] = "calculate_inventory_delta"

\* stock minus forecast demand of the product at the warehouse
DeltaKg(w, p) ==
    TotalStock(df_inventory, w, p)
    - SumField(ForecastRowsAt(df_forecast.rows, zone_warehouse_map, w, p),
               "forecasteddemandkg")

\* the quantity of the candidates that leave the warehouse
DrawnFrom(w, p) ==
    SumTransferQty(SelectSeq(df_transfers.rows,
        LAMBDA t : t.from_warehouseid = w /\ t.productid = p))

\* the quantity of the candidates that go to the warehouse
DeliveredTo(w, p) ==
    SumTransferQty(SelectSeq(df_transfers.rows,
        LAMBDA t : t.to_warehouseid = w /\ t.productid = p))

\* C19: in forecast-based matching the candidates drawn from a surplus warehouse of a
\* product, over all the deficit warehouses it serves, add up to at most its surplus
\* (stock minus forecast demand).
C19_SurplusNotOverdrawn ==
    MatcherReturned =>
        \A w \in WarehouseIds, p \in ProductIds :
            DeltaKg(w, p) > 0 => DrawnFrom(w, p) <= DeltaKg(w, p)

\* C20: in forecast-based matching the candidates delivered to a deficit warehouse of
\* a product, over all the surplus warehouses that serve it, add up to at most its
\* need (forecast demand minus stock), and every candidate goes from a warehouse
\* with a surplus of its product to another warehouse with a deficit of it.
C20_DeficitNotOverfilled ==
    MatcherReturned =>
        /\ \A w \in WarehouseIds, p \in ProductIds :
               DeltaKg(w, p) < 0 => DeliveredTo(w, p) <= 0 - DeltaKg(w, p)
        /\ \A t \in Range(df_transfers.rows) :
               /\ DeltaKg(t.from_warehouseid, t.productid) > 0
               /\ DeltaKg(t.to_warehouseid, t.productid) < 0
               /\ t.from_warehouseid # t.to_warehouseid

\* C20 witness: a deficit warehouse is served by two surplus warehouses
C20_Witness ==
    /\ MatcherReturned
    /\ \E t1, t2 \in Range(df_transfers.rows) :
          /\ t1.to_warehouseid = t2.to_warehouseid
          /\ t1.productid = t2.productid
          /\ t1.from_warehouseid # t2.from_warehouseid

\* C21: in forecast-based matching, when a record goes from a source warehouse to a
\* deficit warehouse, every record of the same product registered earlier in that
\* source warehouse goes to that deficit warehouse too.
C21_OlderRecordsGoFirst ==
    MatcherReturned =>
        \A t \in Range(df_transfers.rows), r \in Range(df_inventory) :
            (/\ r.productid = t.productid
             /\ r.warehouseid = t.from_warehouseid
             /\ r.registrationdate < t.registration_date)
                => \E older \in Range(df_transfers.rows) :
                       /\ older.recordid = r.recordid
                       /\ older.to_warehouseid = t.to_warehouseid

\* the sales of the run with the zones of their buyers
SalesWithZones == merge_sales_with_zones(df_sales, gdf_users)

\* the (product, zone) groups of the sales outside the outlier zone
SaleGroups == Range(forecast_groups(SalesWithZones))

\* the forecast rows of the group
RowsOfGroup(g) ==
    SelectSeq(df_forecast.rows, LAMBDA f : f.productid = g[1] /\ f.zone_id = g[2])

\* the group has one forecast row, the mean of its daily totals times the horizon
HasSimpleAverage(g) ==
    LET ys == DailySeries(SalesWithZones, g[1], g[2])
    IN /\ Len(RowsOfGroup(g)) = 1
       /\ RowsOfGroup(g)[1].forecasteddemandkg
              = (SumSeq(ys) * DEFAULT_FORECAST_DAYS) \div Len(ys)

AttemptOrder ==
    <<FIRST_SEARCH>> \o fallback_strategies \o <<WITHOUT_CAPACITY, BASIC_ASSIGNMENTS>>

\* C23: for every product whose routing model is searched, the attempts made are the
\* first ones of the order first search, fallback strategies as listed, search
\* without the capacity dimension, basic truck assignments; the attempt that
\* returned a solution is the last one made, and when none did every attempt was
\* made and the product's assignments are the basic ones.
C23_AttemptsInOrder ==
    \A product_id \in DOMAIN routing_models :
        LET model == routing_models[product_id]
        IN /\ model.attempts # <<>>
           /\ model.attempts = SubSeq(AttemptOrder, 1, Len(model.attempts))
           /\ model.solution_of # "" =>
                  model.attempts[Len(model.attempts)] = model.solution_of
           /\ model.solution_of = "" => model.attempts = AttemptOrder
           /\ product_id \in DOMAIN all_truck_assignments =>
                  \A a \in Range(all_truck_assignments[product_id]) :
                      a.key = IF model.solution_of = "" THEN "basic_route"
                              ELSE "vrp_route"

\* C23 witness: one product was solved by the third fallback strategy and for
\* another no attempt returned a solution
C23_Witness ==
    \E p1, p2 \in DOMAIN routing_models :
        /\ routing_models[p1].solution_of = fallback_strategies[3]
        /\ Len(routing_models[p1].attempts) = 4
        /\ routing_models[p2].solution_of = ""
        /\ p2 \in DOMAIN all_truck_assignments

\* the candidates of the product that leave the warehouse
Outgoing(product_id, warehouse_id) ==
    Count(df_transfers.rows,
          LAMBDA t : t.productid = product_id /\ t.from_warehouseid = warehouse_id)

\* C24: the depot node of the routing model that is solved for a product, split or
\* not, is at a warehouse that no other warehouse exceeds in outgoing transfers of
\* that product.
C24_DepotHasMostOutgoing ==
    \A product_id \in DOMAIN routing_models :
        LET model == routing_models[product_id]
        IN \A w \in WarehouseIds :
               Outgoing(product_id, w)
                   <= Outgoing(product_id, model.node_warehouses[model.depot])

\* the assignments of the product at the end of the routing loops
AssignmentsOf(product_id) ==
    IF product_id \in DOMAIN all_truck_assignments
    THEN Range(all_truck_assignments[product_id]) ELSE {}

\* C25: in the response every transfer record whose product has an assignment,
\* whatever its key, carries the truck id, capacity and total load of one of that
\* product's assignments, and a record has no truck only when its product has no
\* assignment.
C25_TruckFromOwnAssignments ==
    (pc = "done" /\ result.success) =>
        \A r \in Range(result.transfer_records) :
            IF AssignmentsOf(r.product_id) = {}
            THEN r.assigned_truck_id = NoTruck
            ELSE \E a \in AssignmentsOf(r.product_id) :
                     /\ r.assigned_truck_id = a.truck_id
                     /\ r.truck_capacity_kg = a.capacity
                     /\ r.route_total_load_kg = a.total_load

\* the sum of a field over the rows of a summary
RECURSIVE SumOver(_, _)
SumOver(rows, field) ==
    IF rows = <<>> THEN 0 ELSE Head(rows)[field] + SumOver(Tail(rows), field)

\* C26: the summaries of the response account for every transfer record: the
\* product summary, the route summary and results.total_volume all add up to the
\* quantity of the transfer records, and the transfer counts of the product summary
\* and the record counts of the route summary add up to results.total_transfers.
C26_SummariesAccountForRecords ==
    (pc = "done" /\ result.success) =>
        /\ SumOver(result.product_summary, "total_quantity_kg")
               = SumQuantityKg(result.transfer_records)
        /\ SumOver(result.route_summary, "route_total_kg")
               = SumQuantityKg(result.transfer_records)
        /\ result.results.total_volume = SumQuantityKg(result.transfer_records)
        /\ SumOver(result.product_summary, "number_of_transfers")
               = result.results.total_transfers
        /\ SumOver(result.route_summary, "number_of_records")
               = result.results.total_transfers
        /\ result.results.total_transfers = Len(result.transfer_records)

\* every attempt made on a routing model had a time limit
EveryAttemptTimed ==
    \A product_id \in DOMAIN routing_models :
        \A i \in DOMAIN routing_models[product_id].attempts :
            routing_models[product_id].attempts[i] # BASIC_ASSIGNMENTS
                => time_limit_seconds(routing_models[product_id].attempts[i]) > 0

\* no product was solved after a product whose searches outlasted the time of the run
NoSearchAfterTheDeadline ==
    pc = "route" =>
        \A i, j \in DOMAIN AllProducts :
            (/\ i < j
             /\ AllProducts[i] \in DOMAIN routing_models
             /\ routing_models[AllProducts[i]].overran)
                => AllProducts[j] \notin DOMAIN routing_models

\* C27: the loop over the products is bounded by a deadline of the run: every search
\* attempt, the first included, has a time limit, and once the time of the run has
\* passed the products that remain are not solved.
C27_LoopBoundedByDeadline ==
    EveryAttemptTimed /\ NoSearchAfterTheDeadline

\* the rows the warehouse-balance generator has just returned
BalanceRows ==
    IF steps[Len(steps)] # "generate_warehouse_balance_transfers" THEN <<>>
    ELSE IF pc = "match" THEN df_forecast.rows
    ELSE IF pc = "filter" THEN df_transfers.rows
    ELSE <<>>

\* the kilograms of the rows with the value v in the column field
BalanceKg(field, v) ==
    SumOver(SelectSeq(BalanceRows, LAMBDA r : r[field] = v /\ r.productid = 1),
            "transfer_qty")

\* n times the average stock of product 1, n the number of warehouses that hold it
NetworkStock == SumOver(df_inventory, "quantitykg")

HoldingWarehouses == {df_inventory[i].warehouseid : i \in DOMAIN df_inventory}

\* what a warehouse above the threshold sends out is at most (its stock - average)
SurplusNotPastAverage ==
    \A w \in HoldingWarehouses :
        LET n == Cardinality(HoldingWarehouses)
        IN 100 * n * TotalStock(df_inventory, w, 1)
               > (100 + WAREHOUSE_IMBALANCE_THRESHOLD) * NetworkStock
           => n * BalanceKg("from_warehouseid", w)
                  <= n * TotalStock(df_inventory, w, 1) - NetworkStock

\* what a warehouse below the threshold is sent is at most (average - its stock)
DeficitNotPastAverage ==
    \A w \in HoldingWarehouses :
        LET n == Cardinality(HoldingWarehouses)
        IN 100 * n * TotalStock(df_inventory, w, 1)
               < (100 - WAREHOUSE_IMBALANCE_THRESHOLD) * NetworkStock
           => n * BalanceKg("to_warehouseid", w)
                  <= NetworkStock - n * TotalStock(df_inventory, w, 1)

\* C28: the warehouse-balance generator never moves a warehouse past the average
\* stock of the product: a warehouse above the threshold sends out at most
\* (stock - average) and a warehouse below it is sent, by all the surplus
\* warehouses together, at most (average - stock).
C28_NeverPastAverage ==
    SurplusNotPastAverage /\ DeficitNotPastAverage

\* the quantity actually redistributed for a routing model: the least of the total
\* surplus, the total deficit and the capacity of the fleet
ActualRedistribution(model) ==
    Min(Min(Abs(SumSeq(SelectSeq(model.net_demands, LAMBDA d : d < 0))),
            SumSeq(SelectSeq(model.net_demands, LAMBDA d : d > 0))),
        SumCapacity(head(df_trucks, max_trucks_to_use)))

\* the products whose assignments come from a solution of their routing model
SolvedProducts ==
    {product_id \in DOMAIN all_truck_assignments \cap DOMAIN routing_models :
        /\ routing_models[product_id].solution_of # ""
        /\ \A i \in DOMAIN all_truck_assignments[product_id] :
               all_truck_assignments[product_id][i].key = "vrp_route"}

TotalSurplus(demands) == Abs(SumSeq(SelectSeq(demands, LAMBDA d : d < 0)))

\* C30: the split of the nodes that exceed the largest truck preserves the demands:
\* the sub-visits of a node add up to the demand of the node, so the total surplus
\* and the total deficit of the routing model are the same before and after it.
C30_SplitPreservesDemand ==
    \A product_id \in DOMAIN routing_models :
        LET model == routing_models[product_id]
        IN /\ \A i \in DOMAIN model.scaled_demands :
                 SumSeq(SplitDemand(model.scaled_demands[i],
                                    MaxOf(Range(model.truck_capacities))))
                     = model.scaled_demands[i]
           /\ TotalSurplus(model.demands) = TotalSurplus(model.scaled_demands)
           /\ TotalDeficit(model.demands) = TotalDeficit(model.scaled_demands)

====
